---- MODULE Spec2Model ----
(***************************************************************************)
(* A model of the Diora node core: the blockchain orchestrator             *)
(* (core/blockchain.go), the account state store (core/state.go), the      *)
(* transaction entry of the VM (vm/evm.go) and the stake-weighted          *)
(* consensus engine (consensus/pos.go).                                    *)
(*                                                                         *)
(* Each action is one handler of the code.  A handler that runs under one  *)
(* mutex is one atomic step; tryCreateBlock, which reads the tip without   *)
(* the orchestrator's lock and then calls ProcessBlock, is two steps.      *)
(* The data effect of every handler is modelled with each lock             *)
(* acquisition granted; the locking protocol itself is not part of these   *)
(* actions.  The shutdown specification splits the block production tick   *)
(* at the consensus engine's lock acquisitions and adds that RWMutex.      *)
(*                                                                         *)
(* Hashes are ideal (injective): the hash of a header is the header.       *)
(* A signature is the pair of the signing key and of what was signed.      *)
(***************************************************************************)
EXTENDS Integers, Sequences, FiniteSets, TLC

(***************************************************************************)
(* Bounds of the model.                                                    *)
(***************************************************************************)
\* Blocks applied in one behaviour: a ProcessBlock call that would apply one
\* more is not made.
MaxBlocks == 1
\* Largest block number a peer block carries.
MaxNumber == 2
\* Number of injected store failures (a failing db.Put) in one behaviour.
MaxDbFailures == 1
\* Capacity of the newTxCh channel (1000 in NewBlockchain), scaled down.
TxChanCap == 1
\* Width of uint64/int64 (64 in the code), scaled down.
UintBits == 3
\* Delegations one delegator makes in one behaviour.
MaxDelegations == 2
\* Last instant of the clock.
MaxTime == 2
\* UpdateBlock calls per validator in one behaviour.
MaxUpdates == 1
\* Largest nonce an account reaches through direct ExecuteTransaction calls.
MaxNonce == 2

(***************************************************************************)
(* Configuration.                                                          *)
(***************************************************************************)
\* Config.MinGasPrice (the tests configure 1000000000), scaled down.
MinGasPrice == 1
\* Config.StakeAmount = consensus MinStakeAmount (tests: 1000000), scaled.
MinStakeAmount == 2
\* Config.ValidatorCount = consensus MaxValidators (tests: 100), scaled.
MaxValidators == 2
\* consensus Config.RewardRate (10^18 in NewPoS), scaled down.
RewardRate == 10
\* consensus Config.SlashRate (5 * 10^17 in NewPoS), scaled down; as in the
\* code it is larger than the divisor 1000 it is applied with.
SlashRate == 5000
\* consensus Config.CommissionRate / the commission a validator registers.
CommissionRate == 1000
\* consensus Config.UnbondingPeriod (7 days in NewPoS), in clock units.
UnbondingPeriod == 1

(***************************************************************************)
(* Addresses, keys, hashes.                                                *)
(***************************************************************************)
ZeroAddress == "0x0"
Addr == {"a1", "a2"}
\* Addresses the consensus specification registers validators for.
PosAddr == {"a1", "a2", "a3"}
\* tx.To == nil
NilTo == "nil"

\* common.Hash{}
ZeroHash == [zero |-> TRUE]
\* A stored block hash that is the hash of no header.
TamperedHash == [tampered |-> TRUE]

\* Header.Signature == nil
NoSig == [none |-> TRUE]
\* A signature made with the private key of `key`.  over = "final": it
\* verifies against the hash of the header that carries it; over = "presig":
\* it was made over the hash of the header while Signature was still empty.
Sig(key, over) == [key |-> key, over |-> over]

\* The public key registered by a validator; the key pair of address a is
\* named a.
PublicKeyOf(a) == a

Abs(x) == IF x < 0 THEN -x ELSE x

\* big.Int.Div: Euclidean division (divisor /= 0).
BigDiv(x, y) == IF y > 0 THEN x \div y ELSE -(x \div (-y))

RECURSIVE TwoPow(_)
TwoPow(n) == IF n = 0 THEN 1 ELSE 2 * TwoPow(n - 1)

\* int64(u) for a uint64 u: the top bit becomes the sign.
Int64(u) == IF u >= TwoPow(UintBits - 1) THEN u - TwoPow(UintBits) ELSE u

(***************************************************************************)
(* Transactions.                                                           *)
(***************************************************************************)
Tx(from, to, nonce, value, gasPrice, gasLimit, signer) ==
    [From |-> from, To |-> to, Nonce |-> nonce, Value |-> value,
     GasPrice |-> gasPrice, GasLimit |-> gasLimit, Signer |-> signer]

\* A transfer of 1 from a1 to a2, correctly signed.
TxTransfer == Tx("a1", "a2", 0, 1, MinGasPrice, 1, "a1")
\* The same transfer signed by another key.
TxBadSig == Tx("a1", "a2", 0, 1, MinGasPrice, 1, "a2")
\* The same transfer with the next nonce.
TxNonce1 == Tx("a1", "a2", 1, 1, MinGasPrice, 1, "a1")
\* The same transfer priced below the minimum gas price.
TxLowGas == Tx("a1", "a2", 0, 1, MinGasPrice - 1, 1, "a1")
\* A transaction whose gas limit has the top bit of uint64 set.
TxHugeGas == Tx("a1", "a2", 0, 0, MinGasPrice, TwoPow(UintBits - 1), "a1")
\* A contract creation (To == nil).
TxCreate == Tx("a1", NilTo, 0, 0, MinGasPrice, 1, "a1")

Transactions == {TxTransfer, TxBadSig, TxNonce1, TxLowGas, TxHugeGas, TxCreate}

\* Balances the API sets with SetBalance.
BalanceInputs == {3}

(***************************************************************************)
(* State.                                                                  *)
(***************************************************************************)
VARIABLES
    currentBlock,   \* Blockchain.currentBlock
    blockCache,     \* Blockchain.blockCache: hash -> block
    dbBlocks,       \* the store's blocks: hash -> block
    dbCurrent,      \* the store's "currentBlock" key
    cache,          \* State.cache: address -> account
    dbAccounts,     \* the store's account entries: address -> balance bytes
    txPool,         \* TxPool.pending
    newTxCh,        \* Blockchain.newTxCh
    validators,     \* PoS.validators: address -> validator
    delegators,     \* PoS.delegators: delegator -> sequence of delegations
    totalStake,     \* PoS.totalStake
    posValidator,   \* PoS.validator (the local validator address)
    posPrivateKey,  \* PoS.privateKey
    created,        \* tryCreateBlock: the block built, not yet processed
    crashed,        \* the process ended with a panic
    lastCall,       \* the last operation and its outcome
    dbFailures,     \* store failures injected so far
    blocksApplied,  \* successful ProcessBlock calls so far
    admitted,       \* history: transactions AddTransaction admitted
    included,       \* history: transaction -> number of applied blocks with it
    now,            \* time.Now(), in units of the model's clock
    stopCh,         \* Blockchain.stopCh: "open" or "closed"
    pc,             \* where blockProcessor, txProcessor, Stop and an API call are
    posMu,          \* PoS.mu: the readers holding it, a writer waiting for it
    run,            \* Interpreter.Run: the contract being run and its outcome
    th,             \* the calls API goroutines are in: position and locals
    bcMu,           \* Blockchain.mu: the readers holding it, a writer waiting
    stateMu,        \* State.mu: the readers, the writer holding it, writers waiting
    cacheObj        \* State.cache: address -> identity of the cached *Account

vars == <<currentBlock, blockCache, dbBlocks, dbCurrent, cache, dbAccounts,
          txPool, newTxCh, validators, totalStake, posValidator,
          posPrivateKey, created, crashed, lastCall, dbFailures,
          blocksApplied, admitted, included, delegators, now, stopCh, pc, posMu,
          run, th, bcMu, stateMu, cacheObj>>

chainVars == <<currentBlock, blockCache, dbBlocks, dbCurrent>>
stateVars == <<cache, dbAccounts>>
poolVars == <<txPool, newTxCh>>
posVars == <<validators, delegators, totalStake>>
localVars == <<posValidator, posPrivateKey>>
histVars == <<admitted, included>>
goVars == <<run, th, bcMu, stateMu, cacheObj>>
loopVars == <<stopCh, pc, posMu, goVars>>

NoKey == "nokey"
\* The goroutines that call the API.
Threads == {"t1", "t2"}
\* The goroutine is in no call.
NoCall == [at |-> "idle"]
\* No call of Interpreter.Run is in progress or has been made.
NoRun == [status |-> "idle"]
NoBlock == [noblock |-> TRUE]

\* The record of a call: the operation, its outcome ("ok", an error, or
\* "panic") and its argument.
Call(op, ret, arg) == [op |-> op, ret |-> ret, arg |-> arg]
NoArg == [noarg |-> TRUE]

EmptyMap == [x \in {} |-> 0]
MapPut(f, k, v) == [x \in DOMAIN f \cup {k} |-> IF x = k THEN v ELSE f[x]]

(***************************************************************************)
(* Blocks.                                                                 *)
(***************************************************************************)
Header(parentHash, number, validator, txRoot, signature) ==
    [ParentHash |-> parentHash, Number |-> number, Validator |-> validator,
     TxRoot |-> txRoot, Signature |-> signature]

\* computeTxRoot: the (ideal) hash of the transaction list.
computeTxRoot(txs) == [root |-> txs]

\* Block.ComputeHash: the hash of the header, Signature included.
ComputeHash(header) == [hash |-> header]

Block(header, txs, hash) == [Header |-> header, Transactions |-> txs, Hash |-> hash]

\* createGenesisBlock
createGenesisBlock ==
    LET header == Header(ZeroHash, 0, ZeroAddress, computeTxRoot(<<>>), NoSig)
    IN  Block(header, <<>>, ComputeHash(header))

(***************************************************************************)
(* core.State (crypto/crypto.go, second half).  The operators take and     *)
(* return the cache c; db is the store's account entries.                  *)
(***************************************************************************)
\* big.Int.Bytes: the big-endian bytes of the absolute value.
BalanceBytes(balance) == Abs(balance)
\* big.Int.SetBytes: the bytes read as an unsigned number.
BalanceFromBytes(data) == data

\* A GetAccount that would start an unknown account with a balance of 1.
EndowedLoadAccount(db, addr) ==
    [Nonce |-> 0,
     Balance |-> IF addr \in DOMAIN db THEN BalanceFromBytes(db[addr]) ELSE 1,
     Code |-> <<>>]

\* The account GetAccount builds for an address that is not cached: nonce 0,
\* no code, and the balance the store holds for it (0 when it holds none).
LoadAccount(db, addr) ==
    [Nonce |-> 0,
     Balance |-> IF addr \in DOMAIN db THEN BalanceFromBytes(db[addr]) ELSE 0,
     Code |-> <<>>]

\* State.GetAccount: the cache after the call.
GetAccountCache(c, db, addr) ==
    IF addr \in DOMAIN c THEN c ELSE MapPut(c, addr, LoadAccount(db, addr))

\* State.GetAccount: the account returned.
GetAccount(c, db, addr) == GetAccountCache(c, db, addr)[addr]

\* A SetBalance that would write only to an account that is already cached.
CachedOnlySetBalance(c, db, addr, balance) ==
    IF addr \in DOMAIN c THEN [c EXCEPT ![addr].Balance = balance] ELSE c

\* State.SetBalance
StateSetBalance(c, db, addr, balance) ==
    [GetAccountCache(c, db, addr) EXCEPT ![addr].Balance = balance]

\* State.SetNonce
StateSetNonce(c, db, addr, nonce) ==
    [GetAccountCache(c, db, addr) EXCEPT ![addr].Nonce = nonce]

\* State.Commit, the store after the accounts in `written` were put: for
\* each one its balance bytes (code and storage entries are keyed apart and
\* never read back by GetAccount).
CommitStore(c, db, written) ==
    [a \in DOMAIN db \cup written |->
        IF a \in written THEN BalanceBytes(c[a].Balance) ELSE db[a]]

\* What the API reads: Blockchain.GetNonce / GetBalance, State.GetCode.
GetNonce(addr) == GetAccount(cache, dbAccounts, addr).Nonce
GetBalance(addr) == GetAccount(cache, dbAccounts, addr).Balance
GetCode(addr) == GetAccount(cache, dbAccounts, addr).Code

(***************************************************************************)
(* Blockchain.ValidateTransaction                                          *)
(***************************************************************************)
\* crypto.VerifySignature against tx.From
VerifySignature(tx) == tx.Signer = tx.From

\* cost := GasPrice * int64(GasLimit) + Value
TxCost(tx) == tx.GasPrice * Int64(tx.GasLimit) + tx.Value

\* The error ValidateTransaction returns ("ok" for nil).
ValidateTransaction(c, db, tx) ==
    IF ~VerifySignature(tx) THEN "invalid signature"
    ELSE LET account == GetAccount(c, db, tx.From) IN
         IF tx.Nonce # account.Nonce THEN "invalid nonce"
         ELSE IF account.Balance < TxCost(tx) THEN "insufficient balance"
         ELSE IF tx.GasPrice < MinGasPrice THEN "gas price too low"
         ELSE "ok"

\* The cache after ValidateTransaction (GetAccount caches the sender).
ValidateTransactionCache(c, db, tx) ==
    IF ~VerifySignature(tx) THEN c ELSE GetAccountCache(c, db, tx.From)

(***************************************************************************)
(* vm.EVM.ExecuteTransaction                                               *)
(***************************************************************************)
\* Interpreter.Run as NewEVM wires it: the interpreter is built with a nil
\* evm, so the gas lookup of the first opcode dereferences nil; with empty
\* code the loop ends at once.
InterpreterRun(code) == IF Len(code) = 0 THEN "ok" ELSE "panic"

\* The interpreter's evm field as NewEVM wires it: NewInterpreter(nil).
NilEvm == "nil"
InterpreterEvm == NilEvm
\* The evm field of an interpreter a caller builds with NewInterpreter(evm)
\* from an EVM it holds.
WiredEvm == "evm"

\* Opcodes (a byte of code is an opcode or the operand of a PUSH1).
OpCodes == {"STOP", "ADD", "POP", "PUSH1", "RETURN", "JUMP", "JUMPI"}

\* GasTable.getGasCost with defaultGasTable: Zero 0, Base 2, VeryLow 3.
getGasCost(opcode) ==
    CASE opcode = "STOP" -> 0
      [] opcode = "ADD" -> 3
      [] opcode = "POP" -> 2
      [] opcode = "PUSH1" -> 3
      [] opcode = "RETURN" -> 0
      [] OTHER -> 2

\* The opcodes newJumpTable registers an operation for (STOP and RETURN
\* have none).
JumpTableOps == {"ADD", "POP", "PUSH1", "JUMP", "JUMPI"}

\* A jump that would move execution back to the start of the code.
BackwardJump(code, input) == input

\* opJump, opJumpi: contract.Code after the operation, `input` being the
\* code Run was called with.  The operations leave the code where it is.
opJump(code, input) == code

\* Interpreter.Run on the remaining code with the remaining gas: the error
\* ("ok" for nil, "panic" for the dereference of a nil evm) and the gas
\* left in the contract.
RECURSIVE Run(_, _, _)
Run(evm, code, gas) ==
    IF Len(code) = 0 THEN [err |-> "ok", gas |-> gas]
    ELSE LET opcode == Head(code)
             rest == Tail(code)
             gasCost == getGasCost(opcode)
         IN  IF evm = NilEvm THEN [err |-> "panic", gas |-> gas]
             ELSE IF gas < gasCost THEN [err |-> "out of gas", gas |-> gas]
             ELSE IF opcode \notin JumpTableOps
                  THEN [err |-> "invalid opcode", gas |-> gas - gasCost]
             ELSE IF opcode = "PUSH1"
                  THEN IF Len(rest) < 1
                       THEN [err |-> "insufficient data for PUSH", gas |-> gas - gasCost]
                       ELSE Run(evm, Tail(rest), gas - gasCost)
             ELSE IF opcode = "STOP" \/ opcode = "RETURN"
                  THEN [err |-> "ok", gas |-> gas - gasCost]
             ELSE Run(evm, rest, gas - gasCost)

\* The receipt ExecuteTransaction returns: Status and GasUsed.
ExecuteTransactionReceipt(c, db, tx) ==
    LET r == Run(InterpreterEvm, GetAccount(c, db, tx.To).Code, tx.GasLimit)
    IN  [Status |-> IF r.err = "ok" THEN 1 ELSE 0, GasUsed |-> tx.GasLimit - r.gas]

\* The outcome of ExecuteTransaction: "ok", or "panic" (*tx.To with To == nil,
\* or the interpreter's nil dereference).
ExecuteTransactionRet(c, db, tx) ==
    IF tx.To = NilTo THEN "panic"
    ELSE InterpreterRun(GetAccount(c, db, tx.To).Code)

\* The cache after ExecuteTransaction: GetCode caches the target; on success
\* the sender's nonce is incremented.  No balance is moved.
ExecuteTransactionCache(c, db, tx) ==
    IF tx.To = NilTo THEN c
    ELSE LET c1 == GetAccountCache(c, db, tx.To) IN
         IF InterpreterRun(c1[tx.To].Code) # "ok" THEN c1
         ELSE StateSetNonce(c1, db, tx.From, GetAccount(c1, db, tx.From).Nonce + 1)

\* Blockchain.ExecuteTransactions: in list order, stopping at the first
\* transaction that does not succeed.
RECURSIVE ExecuteTransactions(_, _, _)
ExecuteTransactions(c, db, txs) ==
    IF Len(txs) = 0 THEN [ret |-> "ok", cache |-> c]
    ELSE LET r == ExecuteTransactionRet(c, db, Head(txs))
             c1 == ExecuteTransactionCache(c, db, Head(txs))
         IN  IF r # "ok" THEN [ret |-> r, cache |-> c1]
             ELSE ExecuteTransactions(c1, db, Tail(txs))

(***************************************************************************)
(* consensus.PoS (consensus/pos.go)                                        *)
(***************************************************************************)
Validator(address, stake, commission, publicKey) ==
    [Address |-> address, Stake |-> stake, TotalDelegated |-> 0,
     Commission |-> commission, Status |-> "Active", TotalBlocks |-> 0,
     Rewards |-> 0, PublicKey |-> publicKey]

\* A RegisterValidator that would not look for the address in the registry.
RegisterValidatorRetAgain(vals, address, stake) ==
    IF stake < MinStakeAmount THEN "stake amount too low"
    ELSE IF Cardinality(DOMAIN vals) >= MaxValidators THEN "maximum validators reached"
    ELSE "ok"

\* The error RegisterValidator returns ("ok" for nil).
RegisterValidatorRet(vals, address, stake) ==
    IF stake < MinStakeAmount THEN "stake amount too low"
    ELSE IF Cardinality(DOMAIN vals) >= MaxValidators THEN "maximum validators reached"
    ELSE IF address \in DOMAIN vals THEN "validator already registered"
    ELSE "ok"

\* The error Slash returns ("ok" for nil).
SlashRet(vals, address) ==
    IF address \notin DOMAIN vals THEN "validator not found"
    ELSE IF vals[address].Status = "Slashed" THEN "validator already slashed"
    ELSE "ok"

\* A slash amount that would be taken from the validator's own stake alone.
SlashAmountOfStake(v) == BigDiv(SlashRate * v.Stake, 1000)

\* slashAmount := SlashRate * (Stake + TotalDelegated) / 1000
SlashAmount(v) == BigDiv(SlashRate * (v.Stake + v.TotalDelegated), 1000)

\* getActiveValidators, as a set (the code ranges over the map in any order).
getActiveValidators(vals) == {a \in DOMAIN vals : vals[a].Status = "Active"}

\* isCurrentValidator
isCurrentValidator(vals, address) == address \in getActiveValidators(vals)

\* The orders in which a range over the map can visit the set S.
Orders(S) ==
    {f \in [1..Cardinality(S) -> S] : \A i, j \in 1..Cardinality(S) : i # j => f[i] # f[j]}

Weight(v) == v.Stake + v.TotalDelegated

RECURSIVE SumWeights(_, _)
SumWeights(vals, S) ==
    IF S = {} THEN 0
    ELSE LET a == CHOOSE x \in S : TRUE
         IN  Weight(vals[a]) + SumWeights(vals, S \ {a})

\* The selection loop of SelectValidator from position i with the weight
\* accumulated so far: the first validator whose cumulative weight exceeds
\* the draw, else the first of the list.
RECURSIVE SelectWalk(_, _, _, _, _)
SelectWalk(vals, order, i, cumulative, randNum) ==
    IF i > Len(order) THEN order[1]
    ELSE LET cum == cumulative + Weight(vals[order[i]])
         IN  IF randNum < cum THEN order[i]
             ELSE SelectWalk(vals, order, i + 1, cum, randNum)

\* SelectValidator: every address it can return, over the iteration orders
\* of the map and the random draws in [0, |totalWeight|).
SelectValidator(vals) ==
    LET active == getActiveValidators(vals)
        totalWeight == SumWeights(vals, active)
    IN  IF active = {} \/ totalWeight = 0 THEN {ZeroAddress}
        ELSE {SelectWalk(vals, order, 1, 0, randNum) :
                 order \in Orders(active), randNum \in 0..(Abs(totalWeight) - 1)}

\* ecdsa.VerifyASN1(publicKey, ComputeHash(block), signature), the hash
\* being taken over the header with its Signature field set.
VerifyASN1(publicKey, signature) ==
    signature # NoSig /\ signature.key = publicKey /\ signature.over = "final"

\* PoS.ValidateBlock with `expected` the address SelectValidator returned.
PosValidateBlock(vals, block, expected) ==
    IF block.Header.Validator # expected THEN "invalid validator"
    ELSE IF block.Header.Signature = NoSig THEN "block signature missing"
    ELSE IF block.Header.Validator \notin DOMAIN vals THEN "validator not found"
    ELSE IF ~VerifyASN1(vals[block.Header.Validator].PublicKey, block.Header.Signature)
         THEN "invalid block signature"
    ELSE "ok"

\* validator.Stake.Uint64() converted to int64 (the magnitude of the stake).
StakeUint64(stake) == Abs(stake)

\* distributeRewards: the reward added to the producing validator.
ValidatorReward(v) ==
    LET commission == BigDiv(RewardRate * v.Commission, 10000)
    IN  BigDiv(commission + RewardRate * StakeUint64(v.Stake), v.Stake + v.TotalDelegated)

\* distributeRewards: the per-unit reward handed to distributeDelegatorRewards.
DelegatorReward(v) ==
    LET commission == BigDiv(RewardRate * v.Commission, 10000)
    IN  BigDiv(RewardRate - commission
                 - ValidatorReward(v) * ((v.Stake + v.TotalDelegated) - v.Stake),
               v.TotalDelegated)

\* distributeDelegatorRewards
distributeDelegatorRewards(vals, dels, address, reward) ==
    [d \in DOMAIN dels |->
        [i \in 1..Len(dels[d]) |->
            IF dels[d][i].Validator = address /\ dels[d][i].Status = "Active"
            THEN [dels[d][i] EXCEPT
                    !.Rewards = @ + BigDiv(reward * dels[d][i].Amount,
                                           vals[address].TotalDelegated)]
            ELSE dels[d][i]]]

\* UpdateBlock: the registry after the call.
UpdateBlockValidators(vals, block) ==
    LET a == block.Header.Validator IN
    IF a \notin DOMAIN vals THEN vals
    ELSE [vals EXCEPT ![a].TotalBlocks = @ + 1,
                      ![a].Rewards = @ + ValidatorReward(vals[a])]

\* UpdateBlock: the delegations after the call.
UpdateBlockDelegators(vals, dels, block) ==
    LET a == block.Header.Validator IN
    IF a \notin DOMAIN vals \/ vals[a].TotalDelegated <= 0 THEN dels
    ELSE distributeDelegatorRewards(vals, dels, a, DelegatorReward(vals[a]))

\* The divisors distributeRewards and distributeDelegatorRewards divide by
\* for the producing validator v: Stake + TotalDelegated always,
\* TotalDelegated when it is positive.
RewardDivisors(v) ==
    {v.Stake + v.TotalDelegated} \cup (IF v.TotalDelegated > 0 THEN {v.TotalDelegated} ELSE {})

\* big.Int.Div by zero panics.
distributeRewardsPanics(v) == 0 \in RewardDivisors(v)

\* The delegation Delegate builds.  UnbondTime starts as the zero time.
Delegation(delegator, validator, amount) ==
    [Delegator |-> delegator, Validator |-> validator, Amount |-> amount,
     Rewards |-> 0, UnbondTime |-> 0, Status |-> "Active"]

\* pos.delegators[delegator]: the slice, empty for a missing key.
DelegationsOf(dels, delegator) ==
    IF delegator \in DOMAIN dels THEN dels[delegator] ELSE <<>>

\* The index of the first delegation of the slice to `validator` in status
\* `status`, 0 when there is none.
FirstDelegation(slice, validator, status) ==
    LET hits == {i \in 1..Len(slice) :
                    slice[i].Validator = validator /\ slice[i].Status = status}
    IN  IF hits = {} THEN 0 ELSE CHOOSE i \in hits : \A j \in hits : i <= j

\* A Delegate that would not look at the validator's status.
DelegateRetAnyStatus(vals, validator) ==
    IF validator \notin DOMAIN vals THEN "validator not found" ELSE "ok"

\* The error Delegate returns ("ok" for nil).
DelegateRet(vals, validator) ==
    IF validator \notin DOMAIN vals THEN "validator not found"
    ELSE IF vals[validator].Status # "Active" THEN "validator not active"
    ELSE "ok"

\* The error Unbond returns ("ok" for nil).
UnbondRet(dels, delegator, validator) ==
    IF delegator \notin DOMAIN dels THEN "no delegations found"
    ELSE IF FirstDelegation(dels[delegator], validator, "Active") = 0
         THEN "active delegation not found"
    ELSE "ok"

\* An unbondAmount that would not be capped by the delegation's amount.
UncappedUnbondAmount(delegation, amount) == amount

\* Unbond: unbondAmount, the delegation's amount capped by the amount asked.
UnbondAmount(delegation, amount) ==
    IF amount < delegation.Amount THEN amount ELSE delegation.Amount

\* A CompleteUnbonding that would still refuse at unbondTime itself.
LateCompleteUnbondingRet(dels, delegator, validator, t) ==
    IF delegator \notin DOMAIN dels THEN "no delegations found"
    ELSE LET i == FirstDelegation(dels[delegator], validator, "Unbonding") IN
         IF i = 0 THEN "unbonding delegation not found"
         ELSE IF t <= dels[delegator][i].UnbondTime THEN "unbonding period not completed"
         ELSE "ok"

\* The error CompleteUnbonding returns at time t ("ok" for nil).
CompleteUnbondingRet(dels, delegator, validator, t) ==
    IF delegator \notin DOMAIN dels THEN "no delegations found"
    ELSE LET i == FirstDelegation(dels[delegator], validator, "Unbonding") IN
         IF i = 0 THEN "unbonding delegation not found"
         ELSE IF t < dels[delegator][i].UnbondTime THEN "unbonding period not completed"
         ELSE "ok"

(***************************************************************************)
(* TxPool.  Its methods are not part of the sources at hand; Add and       *)
(* Pending follow the specification: Add inserts the transaction into      *)
(* the pending set, Pending drains the pending set.                        *)
(***************************************************************************)
TxPoolAdd(pool, tx) == pool \cup {tx}
\* The slices Pending can return (any order of the pending set).
TxPoolPending(pool) == Orders(pool)
TxPoolAfterPending(pool) == {}

(***************************************************************************)
(* core.Blockchain (core/blockchain.go)                                    *)
(***************************************************************************)
\* The hashes GetBlockByHash finds: in the cache or in the store.
KnownHashes == DOMAIN blockCache \cup DOMAIN dbBlocks

\* GetBlockByHash: the block found for a known hash.
GetBlockByHash(hash) ==
    IF hash \in DOMAIN blockCache THEN blockCache[hash] ELSE dbBlocks[hash]

\* ValidateTransaction over the block's transactions, in order, each against
\* the state as it is before the block; the first error, and the cache after.
RECURSIVE ValidateTransactions(_, _, _)
ValidateTransactions(c, db, txs) ==
    IF Len(txs) = 0 THEN [ret |-> "ok", cache |-> c]
    ELSE LET r == ValidateTransaction(c, db, Head(txs))
             c1 == ValidateTransactionCache(c, db, Head(txs))
         IN  IF r # "ok" THEN [ret |-> r, cache |-> c1]
             ELSE ValidateTransactions(c1, db, Tail(txs))

\* Blockchain.ValidateBlock: the error returned ("ok" for nil), `expected`
\* being the address SelectValidator draws inside the consensus check.
ValidateBlock(block, expected) ==
    IF block.Hash # ComputeHash(block.Header) THEN "invalid block"
    ELSE IF block.Header.Number > 0 /\ block.Header.ParentHash \notin KnownHashes
         THEN "parent block not found"
    ELSE IF PosValidateBlock(validators, block, expected) # "ok"
         THEN PosValidateBlock(validators, block, expected)
    ELSE ValidateTransactions(cache, dbAccounts, block.Transactions).ret

\* A ValidateBlock that would execute the block's transactions while
\* validating it.
ExecutingValidateBlockCache(block, expected) ==
    ExecuteTransactions(cache, dbAccounts, block.Transactions).cache

\* The state cache after ValidateBlock.
ValidateBlockCache(block, expected) ==
    IF \/ block.Hash # ComputeHash(block.Header)
       \/ block.Header.Number > 0 /\ block.Header.ParentHash \notin KnownHashes
       \/ PosValidateBlock(validators, block, expected) # "ok"
    THEN cache
    ELSE ValidateTransactions(cache, dbAccounts, block.Transactions).cache

\* The block cache after ValidateBlock: GetBlockByHash caches a parent it
\* read from the store.
ValidateBlockBlockCache(block) ==
    IF /\ block.Hash = ComputeHash(block.Header)
       /\ block.Header.Number > 0
       /\ block.Header.ParentHash \notin DOMAIN blockCache
       /\ block.Header.ParentHash \in DOMAIN dbBlocks
    THEN MapPut(blockCache, block.Header.ParentHash, dbBlocks[block.Header.ParentHash])
    ELSE blockCache

\* included, after a block with these transactions was applied.
RECURSIVE CountIn(_, _)
CountIn(tx, txs) ==
    IF Len(txs) = 0 THEN 0
    ELSE (IF Head(txs) = tx THEN 1 ELSE 0) + CountIn(tx, Tail(txs))

\* A ProcessBlock that would assign bc.currentBlock before writeBlock
\* returns.
AdvancedCurrentBlock(block) == block

\* bc.currentBlock when writeBlock returns an error: ProcessBlock returns
\* before the assignment bc.currentBlock = block.
currentBlockOnWriteError(block) == currentBlock

\* Where an injected store failure hits ProcessBlock.
FailChoices ==
    {"none"} \cup (IF dbFailures < MaxDbFailures THEN {"commit", "put block", "put pointer"} ELSE {})

\* ProcessBlock, from validation to UpdateBlock.
ProcessBlock(block) ==
    /\ ~crashed
    /\ \E expected \in SelectValidator(validators) :
        LET verr == ValidateBlock(block, expected)
            c0 == ValidateBlockCache(block, expected)
            bc0 == ValidateBlockBlockCache(block)
            ex == ExecuteTransactions(c0, dbAccounts, block.Transactions)
            txs == block.Transactions
        IN
        IF verr # "ok" THEN
            \* return err
            /\ lastCall' = Call("ProcessBlock", verr, NoArg)
            /\ cache' = c0
            /\ blockCache' = bc0
            /\ UNCHANGED <<currentBlock, dbBlocks, dbCurrent, dbAccounts, posVars,
                           crashed, dbFailures, blocksApplied, included>>
        ELSE IF ex.ret = "panic" THEN
            /\ lastCall' = Call("ProcessBlock", "panic", NoArg)
            /\ crashed' = TRUE
            /\ cache' = ex.cache
            /\ blockCache' = bc0
            /\ UNCHANGED <<currentBlock, dbBlocks, dbCurrent, dbAccounts, posVars,
                           dbFailures, blocksApplied, included>>
        ELSE IF ex.ret # "ok" THEN
            /\ lastCall' = Call("ProcessBlock", "failed to execute transactions", NoArg)
            /\ cache' = ex.cache
            /\ blockCache' = bc0
            /\ UNCHANGED <<currentBlock, dbBlocks, dbCurrent, dbAccounts, posVars,
                           crashed, dbFailures, blocksApplied, included>>
        ELSE \E fail \in FailChoices :
            IF fail = "commit" THEN
                \* State.Commit: a Put fails after the accounts in `written`
                \* were put; the cache is kept
                /\ DOMAIN ex.cache # {}
                /\ \E written \in SUBSET (DOMAIN ex.cache) :
                    /\ written # DOMAIN ex.cache
                    /\ dbAccounts' = CommitStore(ex.cache, dbAccounts, written)
                /\ lastCall' = Call("ProcessBlock", "failed to commit state", NoArg)
                /\ cache' = ex.cache
                /\ blockCache' = bc0
                /\ dbFailures' = dbFailures + 1
                /\ UNCHANGED <<currentBlock, dbBlocks, dbCurrent, posVars,
                               crashed, blocksApplied, included>>
            ELSE
                \* State.Commit succeeded: every cached account is put, the
                \* cache is replaced by an empty one
                /\ dbAccounts' = CommitStore(ex.cache, dbAccounts, DOMAIN ex.cache)
                /\ cache' = EmptyMap
                /\ IF fail = "put block" THEN
                        \* writeBlock: the Put of the block fails
                        /\ lastCall' = Call("ProcessBlock", "failed to write block", NoArg)
                        /\ blockCache' = bc0
                        /\ dbFailures' = dbFailures + 1
                        /\ UNCHANGED <<currentBlock, dbBlocks, dbCurrent, posVars,
                                       crashed, blocksApplied, included>>
                   ELSE IF fail = "put pointer" THEN
                        \* writeBlock: the Put of "currentBlock" fails
                        /\ lastCall' = Call("ProcessBlock", "failed to write block", NoArg)
                        /\ dbBlocks' = MapPut(dbBlocks, block.Hash, block)
                        /\ blockCache' = bc0
                        /\ dbFailures' = dbFailures + 1
                        /\ currentBlock' = currentBlockOnWriteError(block)
                        /\ UNCHANGED <<dbCurrent, posVars,
                                       crashed, blocksApplied, included>>
                   ELSE
                        /\ blocksApplied < MaxBlocks
                        /\ lastCall' = Call("ProcessBlock", "ok", txs)
                        /\ dbBlocks' = MapPut(dbBlocks, block.Hash, block)
                        /\ dbCurrent' = block.Hash
                        /\ blockCache' = MapPut(bc0, block.Hash, block)
                        /\ currentBlock' = block
                        /\ validators' = UpdateBlockValidators(validators, block)
                        /\ delegators' = UpdateBlockDelegators(validators, delegators, block)
                        /\ blocksApplied' = blocksApplied + 1
                        /\ included' = [t \in DOMAIN included |-> included[t] + CountIn(t, txs)]
                        /\ UNCHANGED <<totalStake, crashed, dbFailures>>

(***************************************************************************)
(* Blocks a peer (or the API) hands to ProcessBlock.                       *)
(***************************************************************************)
BlockTxLists ==
    {<<>>, <<TxTransfer>>, <<TxBadSig>>, <<TxCreate>>, <<TxTransfer, TxHugeGas>>}

PeerBlock(parentHash, number, validator, txs, signature) ==
    LET header == Header(parentHash, number, validator, computeTxRoot(txs), signature)
    IN  Block(header, txs, ComputeHash(header))

\* Blocks signed by the validator they name, over the final header: empty
\* blocks with any number and any known or unknown parent, and children of
\* the tip with transactions.
SignedPeerBlocks ==
    {PeerBlock(p, n, "a1", <<>>, Sig("a1", "final")) :
        p \in KnownHashes \cup {ZeroHash}, n \in 0..MaxNumber}
    \cup {PeerBlock(currentBlock.Hash, currentBlock.Header.Number + 1, "a1", txs, Sig("a1", "final")) :
            txs \in BlockTxLists}
    \cup {PeerBlock(currentBlock.Hash, currentBlock.Header.Number + 1, "a2", txs, Sig("a2", "final")) :
            txs \in {<<>>, <<TxTransfer>>}}

\* Children of the tip that are unsigned, signed by another key, signed over
\* the header without its signature, name no validator, or carry a hash that
\* is not the hash of their header.
MalformedPeerBlocks ==
    LET p == currentBlock.Hash
        n == currentBlock.Header.Number + 1
    IN  {PeerBlock(p, n, v, <<>>, sig) :
            v \in {"a1", ZeroAddress},
            sig \in {NoSig, Sig("a1", "presig"), Sig("a2", "final")}}
        \cup {[PeerBlock(p, n, "a1", <<>>, Sig("a1", "final")) EXCEPT !.Hash = TamperedHash]}

PeerBlocks == SignedPeerBlocks \cup MalformedPeerBlocks

\* The block TestBlockValidation builds: number 1, the zero hash as parent,
\* no validator, no signature, no transactions, Hash = ComputeHash().
TestBlock == PeerBlock(ZeroHash, 1, ZeroAddress, <<>>, NoSig)

\* Children of the tip, signed by the validator a1 over the final header,
\* that carry transactions of the pool's senders.
TipBlocks ==
    {PeerBlock(currentBlock.Hash, currentBlock.Header.Number + 1, "a1", txs, Sig("a1", "final")) :
        txs \in {<<TxTransfer>>, <<TxHugeGas>>}}

(***************************************************************************)
(* Actions.                                                                *)
(***************************************************************************)
\* ProcessBlock called with a peer's block.
PeerProcessBlock ==
    \E block \in PeerBlocks :
        /\ ProcessBlock(block)
        /\ UNCHANGED <<poolVars, localVars, now, loopVars, created, admitted>>

\* ProcessBlock called with a peer's block that extends the tip.
PeerProcessTipBlock ==
    \E block \in TipBlocks :
        /\ ProcessBlock(block)
        /\ UNCHANGED <<poolVars, localVars, now, loopVars, created, admitted>>

\* Blockchain.ValidateBlock called through the API; the block is recorded.
ValidateBlockCall(block) ==
    /\ ~crashed
    /\ \E expected \in SelectValidator(validators) :
        /\ lastCall' = Call("ValidateBlock", ValidateBlock(block, expected),
                            [block |-> block])
        /\ cache' = ValidateBlockCache(block, expected)
    /\ blockCache' = ValidateBlockBlockCache(block)
    /\ UNCHANGED <<currentBlock, dbBlocks, dbCurrent, dbAccounts, poolVars, posVars,
                   localVars, now, loopVars, created, crashed, dbFailures, blocksApplied,
                   histVars>>

\* An AddTransaction that would queue the transaction before looking at the
\* result of ValidateTransaction.
QueueingAddTransaction(tx) ==
    LET err == ValidateTransaction(cache, dbAccounts, tx) IN
    /\ ~crashed
    /\ lastCall' = Call("AddTransaction", err, tx)
    /\ cache' = ValidateTransactionCache(cache, dbAccounts, tx)
    /\ txPool' = TxPoolAdd(txPool, tx)
    /\ newTxCh' = IF Len(newTxCh) < TxChanCap THEN Append(newTxCh, tx) ELSE newTxCh
    /\ admitted' = IF err = "ok" THEN admitted \cup {tx} ELSE admitted
    /\ UNCHANGED <<chainVars, dbAccounts, posVars, localVars, now, loopVars, created, crashed,
                   dbFailures, blocksApplied, included>>

\* AddTransaction
AddTransaction(tx) ==
    LET err == ValidateTransaction(cache, dbAccounts, tx) IN
    /\ ~crashed
    /\ lastCall' = Call("AddTransaction", err, tx)
    /\ cache' = ValidateTransactionCache(cache, dbAccounts, tx)
    /\ IF err # "ok" THEN
            UNCHANGED <<poolVars, admitted>>
       ELSE
            /\ txPool' = TxPoolAdd(txPool, tx)
            \* select: send when the channel has room, else drop the notice
            /\ newTxCh' = IF Len(newTxCh) < TxChanCap THEN Append(newTxCh, tx) ELSE newTxCh
            /\ admitted' = admitted \cup {tx}
    /\ UNCHANGED <<chainVars, dbAccounts, posVars, localVars, now, loopVars, created, crashed,
                   dbFailures, blocksApplied, included>>

\* One iteration of txProcessor: a transaction received from newTxCh is
\* added to the pool.
txProcessor ==
    /\ ~crashed
    /\ Len(newTxCh) > 0
    /\ txPool' = TxPoolAdd(txPool, Head(newTxCh))
    /\ newTxCh' = Tail(newTxCh)
    /\ lastCall' = Call("txProcessor", "ok", NoArg)
    /\ UNCHANGED <<chainVars, stateVars, posVars, localVars, now, loopVars, created, crashed,
                   dbFailures, blocksApplied, histVars>>

\* PoS.IsValidator
IsValidator == posValidator # ZeroAddress /\ isCurrentValidator(validators, posValidator)

\* Blockchain.CreateBlock with a private key at hand: the header is signed
\* while its Signature is empty, then the signature is stored in it and the
\* hash is computed.
CreateBlock(txs) ==
    LET parent == currentBlock
        header == Header(parent.Hash, parent.Header.Number + 1, posValidator,
                         computeTxRoot(txs), Sig(posPrivateKey, "presig"))
    IN  Block(header, txs, ComputeHash(header))

\* tryCreateBlock up to the call of ProcessBlock: IsValidator, Pending,
\* CreateBlock.
tryCreateBlock ==
    /\ ~crashed
    /\ created = NoBlock
    /\ IF ~IsValidator THEN
            /\ lastCall' = Call("tryCreateBlock", "not validator", NoArg)
            /\ UNCHANGED <<txPool, created>>
       ELSE IF txPool = {} THEN
            /\ lastCall' = Call("tryCreateBlock", "no transactions", NoArg)
            /\ UNCHANGED <<txPool, created>>
       ELSE IF posPrivateKey = NoKey THEN
            \* SignBlock: no private key available
            /\ lastCall' = Call("tryCreateBlock", "failed to sign block", NoArg)
            /\ txPool' = TxPoolAfterPending(txPool)
            /\ UNCHANGED created
       ELSE \E txs \in TxPoolPending(txPool) :
            /\ lastCall' = Call("tryCreateBlock", "created", NoArg)
            /\ txPool' = TxPoolAfterPending(txPool)
            /\ created' = CreateBlock(txs)
    /\ UNCHANGED <<chainVars, stateVars, newTxCh, posVars, localVars, now, loopVars, crashed,
                   dbFailures, blocksApplied, histVars>>

\* tryCreateBlock from the call of ProcessBlock on the block it built.
tryCreateBlockProcess ==
    /\ created # NoBlock
    /\ ProcessBlock(created)
    /\ created' = NoBlock
    /\ UNCHANGED <<poolVars, localVars, now, loopVars, admitted>>

\* State.SetBalance through the API.
SetBalance(addr, balance) ==
    /\ ~crashed
    /\ cache' = StateSetBalance(cache, dbAccounts, addr, balance)
    /\ lastCall' = Call("SetBalance", "ok", [addr |-> addr, balance |-> balance])
    /\ UNCHANGED <<chainVars, dbAccounts, poolVars, posVars, localVars, now, loopVars, created,
                   crashed, dbFailures, blocksApplied, histVars>>

\* PoS.SetValidator
SetValidator(address, privateKey) ==
    /\ ~crashed
    /\ posValidator' = address
    /\ posPrivateKey' = privateKey
    /\ lastCall' = Call("SetValidator", "ok", NoArg)
    /\ UNCHANGED <<chainVars, stateVars, poolVars, posVars, created, crashed, now, loopVars,
                   dbFailures, blocksApplied, histVars>>

\* PoS.RegisterValidator
RegisterValidator(address, stake, commission, publicKey) ==
    LET err == RegisterValidatorRet(validators, address, stake) IN
    /\ ~crashed
    /\ lastCall' = Call("RegisterValidator", err, [address |-> address, stake |-> stake])
    /\ IF err # "ok" THEN UNCHANGED posVars
       ELSE /\ validators' = MapPut(validators, address,
                                    Validator(address, stake, commission, publicKey))
            /\ totalStake' = totalStake + stake
            /\ UNCHANGED delegators
    /\ UNCHANGED <<chainVars, stateVars, poolVars, localVars, now, loopVars, created, crashed,
                   dbFailures, blocksApplied, histVars>>

\* A Slash that would take the amount from the validator's stake and leave
\* totalStake as it was.
UntalliedSlash(address) ==
    LET err == SlashRet(validators, address) IN
    /\ ~crashed
    /\ lastCall' = Call("Slash", err, [address |-> address])
    /\ IF err # "ok" THEN UNCHANGED posVars
       ELSE /\ validators' = [validators EXCEPT
                                ![address].Stake = @ - SlashAmount(validators[address]),
                                ![address].Status = "Slashed"]
            /\ UNCHANGED <<delegators, totalStake>>
    /\ UNCHANGED <<chainVars, stateVars, poolVars, localVars, now, loopVars, created, crashed,
                   dbFailures, blocksApplied, histVars>>

\* PoS.Slash
Slash(address) ==
    LET err == SlashRet(validators, address) IN
    /\ ~crashed
    /\ lastCall' = Call("Slash", err, [address |-> address])
    /\ IF err # "ok" THEN UNCHANGED posVars
       ELSE /\ validators' = [validators EXCEPT
                                ![address].Stake = @ - SlashAmount(validators[address]),
                                ![address].Status = "Slashed"]
            /\ totalStake' = totalStake - SlashAmount(validators[address])
            /\ UNCHANGED delegators
    /\ UNCHANGED <<chainVars, stateVars, poolVars, localVars, now, loopVars, created, crashed,
                   dbFailures, blocksApplied, histVars>>

\* PoS.Delegate
Delegate(delegator, validator, amount) ==
    LET err == DelegateRet(validators, validator) IN
    /\ ~crashed
    /\ Len(DelegationsOf(delegators, delegator)) < MaxDelegations
    /\ lastCall' = Call("Delegate", err,
                        [delegator |-> delegator, validator |-> validator, amount |-> amount])
    /\ IF err # "ok" THEN UNCHANGED posVars
       ELSE /\ delegators' = MapPut(delegators, delegator,
                                    Append(DelegationsOf(delegators, delegator),
                                           Delegation(delegator, validator, amount)))
            /\ validators' = [validators EXCEPT ![validator].TotalDelegated = @ + amount]
            /\ totalStake' = totalStake + amount
    /\ UNCHANGED <<chainVars, stateVars, poolVars, localVars, now, loopVars, created, crashed,
                   dbFailures, blocksApplied, histVars>>

\* PoS.Unbond
Unbond(delegator, validator, amount) ==
    LET err == UnbondRet(delegators, delegator, validator) IN
    /\ ~crashed
    /\ lastCall' = Call("Unbond", err,
                        [delegator |-> delegator, validator |-> validator, amount |-> amount])
    /\ IF err # "ok" THEN UNCHANGED posVars
       ELSE LET i == FirstDelegation(delegators[delegator], validator, "Active")
                unbondAmount == UnbondAmount(delegators[delegator][i], amount)
            IN  /\ delegators' = [delegators EXCEPT
                                    ![delegator][i].Status = "Unbonding",
                                    ![delegator][i].UnbondTime = now + UnbondingPeriod]
                /\ validators' = [validators EXCEPT
                                    ![validator].TotalDelegated = @ - unbondAmount]
                /\ totalStake' = totalStake - unbondAmount
    /\ UNCHANGED <<chainVars, stateVars, poolVars, localVars, now, loopVars, created, crashed,
                   dbFailures, blocksApplied, histVars>>

\* A CompleteUnbonding that would mark the delegation Completed before it
\* compares the time.
EagerCompleteUnbonding(delegator, validator) ==
    LET err == CompleteUnbondingRet(delegators, delegator, validator, now)
        i == FirstDelegation(DelegationsOf(delegators, delegator), validator, "Unbonding")
    IN
    /\ ~crashed
    /\ lastCall' = Call("CompleteUnbonding", err,
                        [delegator |-> delegator, validator |-> validator,
                         returnAmount |-> 0])
    /\ delegators' = IF i = 0 THEN delegators
                     ELSE [delegators EXCEPT ![delegator][i].Status = "Completed"]
    /\ UNCHANGED <<validators, totalStake>>
    /\ UNCHANGED <<chainVars, stateVars, poolVars, localVars, now, loopVars, created, crashed,
                   dbFailures, blocksApplied, histVars>>

\* PoS.CompleteUnbonding; on success the amount returned is recorded.
CompleteUnbonding(delegator, validator) ==
    LET err == CompleteUnbondingRet(delegators, delegator, validator, now) IN
    /\ ~crashed
    /\ IF err # "ok" THEN
            /\ lastCall' = Call("CompleteUnbonding", err,
                                [delegator |-> delegator, validator |-> validator])
            /\ UNCHANGED posVars
       ELSE LET i == FirstDelegation(delegators[delegator], validator, "Unbonding")
                delegation == delegators[delegator][i]
            IN  /\ lastCall' = Call("CompleteUnbonding", err,
                                    [delegator |-> delegator, validator |-> validator,
                                     returnAmount |-> delegation.Amount + delegation.Rewards])
                /\ delegators' = [delegators EXCEPT ![delegator][i].Status = "Completed"]
                /\ UNCHANGED <<validators, totalStake>>
    /\ UNCHANGED <<chainVars, stateVars, poolVars, localVars, now, loopVars, created, crashed,
                   dbFailures, blocksApplied, histVars>>

\* PoS.UpdateBlock called with a block produced by `address`.
UpdateBlock(address) ==
    LET block == [Header |-> [Validator |-> address]] IN
    /\ ~crashed
    /\ address \in DOMAIN validators => validators[address].TotalBlocks < MaxUpdates
    /\ IF address \in DOMAIN validators /\ distributeRewardsPanics(validators[address]) THEN
            \* TotalBlocks is incremented, then the division panics
            /\ lastCall' = Call("UpdateBlock", "panic", [address |-> address])
            /\ crashed' = TRUE
            /\ validators' = [validators EXCEPT ![address].TotalBlocks = @ + 1]
            /\ UNCHANGED <<delegators, totalStake>>
       ELSE /\ lastCall' = Call("UpdateBlock", "ok", [address |-> address])
            /\ validators' = UpdateBlockValidators(validators, block)
            /\ delegators' = UpdateBlockDelegators(validators, delegators, block)
            /\ UNCHANGED <<totalStake, crashed>>
    /\ UNCHANGED <<chainVars, stateVars, poolVars, localVars, now, loopVars, created,
                   dbFailures, blocksApplied, histVars>>

\* State.SetCode through the API.
SetCode(addr, code) ==
    /\ ~crashed
    /\ cache' = [GetAccountCache(cache, dbAccounts, addr) EXCEPT ![addr].Code = code]
    /\ lastCall' = Call("SetCode", "ok", [addr |-> addr, code |-> code])
    /\ UNCHANGED <<chainVars, dbAccounts, poolVars, posVars, localVars, now, loopVars, created,
                   crashed, dbFailures, blocksApplied, histVars>>

\* State.SetNonce through the API.
SetNonce(addr, nonce) ==
    /\ ~crashed
    /\ cache' = StateSetNonce(cache, dbAccounts, addr, nonce)
    /\ lastCall' = Call("SetNonce", "ok", [addr |-> addr, nonce |-> nonce])
    /\ UNCHANGED <<chainVars, dbAccounts, poolVars, posVars, localVars, now, loopVars, created,
                   crashed, dbFailures, blocksApplied, histVars>>

\* Blockchain.GetBalance / State.GetBalance through the API: GetAccount
\* caches the account it builds; the balance returned is recorded.
GetBalanceCall(addr) ==
    /\ ~crashed
    /\ cache' = GetAccountCache(cache, dbAccounts, addr)
    /\ lastCall' = Call("GetBalance", "ok", [addr |-> addr, balance |-> GetBalance(addr)])
    /\ UNCHANGED <<chainVars, dbAccounts, poolVars, posVars, localVars, now, loopVars, created,
                   crashed, dbFailures, blocksApplied, histVars>>

\* A Commit that would add each cached balance to the stored one and keep
\* the cache.
AccumulatingCommit ==
    /\ ~crashed
    /\ dbAccounts' = [a \in DOMAIN dbAccounts \cup DOMAIN cache |->
                        (IF a \in DOMAIN dbAccounts THEN dbAccounts[a] ELSE 0)
                        + (IF a \in DOMAIN cache THEN BalanceBytes(cache[a].Balance) ELSE 0)]
    /\ lastCall' = Call("Commit", "ok", [puts |-> Cardinality(DOMAIN cache)])
    /\ UNCHANGED <<chainVars, cache, poolVars, posVars, localVars, now, loopVars, created,
                   crashed, dbFailures, blocksApplied, histVars>>

\* State.Commit through the API; the number of accounts it put is recorded.
\* A failing Put returns its error after the
\* accounts in `written` had their balance put (all of them when the Put of
\* a code fails last) and keeps the cache; else every cached account is put
\* and the cache is replaced by an empty one.
Commit ==
    /\ ~crashed
    /\ \E fail \in {"none"} \cup (IF dbFailures < MaxDbFailures THEN {"put"} ELSE {}) :
        IF fail = "put" THEN
            /\ DOMAIN cache # {}
            /\ \E written \in SUBSET (DOMAIN cache) :
                /\ \/ written # DOMAIN cache
                   \/ \E a \in written : Len(cache[a].Code) > 0
                /\ dbAccounts' = CommitStore(cache, dbAccounts, written)
                /\ lastCall' = Call("Commit", "put failed", [puts |-> Cardinality(written)])
            /\ dbFailures' = dbFailures + 1
            /\ UNCHANGED cache
        ELSE
            /\ dbAccounts' = CommitStore(cache, dbAccounts, DOMAIN cache)
            /\ cache' = EmptyMap
            /\ lastCall' = Call("Commit", "ok", [puts |-> Cardinality(DOMAIN cache)])
            /\ UNCHANGED dbFailures
    /\ UNCHANGED <<chainVars, poolVars, posVars, localVars, now, loopVars, created,
                   crashed, blocksApplied, histVars>>

\* Interpreter.Run called on an interpreter built with NewInterpreter(evm);
\* the error and the gas left in the contract are recorded.
RunCall(evm, code, gas) ==
    LET r == Run(evm, code, gas) IN
    /\ ~crashed
    /\ lastCall' = Call("Run", r.err,
                        [evm |-> evm, code |-> code, gas |-> gas, gasLeft |-> r.gas])
    /\ crashed' = (r.err = "panic")
    /\ UNCHANGED <<chainVars, stateVars, poolVars, posVars, localVars, now, loopVars, created,
                   dbFailures, blocksApplied, histVars>>

\* EVM.ExecuteTransaction; the receipt is recorded when one is returned.
\* With To == nil the dereference *tx.To panics.
ExecuteTransaction(tx) ==
    LET ret == IF tx.To = NilTo THEN "panic"
               ELSE Run(InterpreterEvm, GetAccount(cache, dbAccounts, tx.To).Code,
                        tx.GasLimit).err
    IN
    /\ ~crashed
    /\ GetNonce(tx.From) < MaxNonce
    /\ cache' = ExecuteTransactionCache(cache, dbAccounts, tx)
    /\ IF ret = "panic" THEN
            /\ lastCall' = Call("ExecuteTransaction", "panic", [tx |-> tx])
            /\ crashed' = TRUE
       ELSE /\ lastCall' = Call("ExecuteTransaction", ret,
                                [tx |-> tx,
                                 receipt |-> ExecuteTransactionReceipt(cache, dbAccounts, tx)])
            /\ UNCHANGED crashed
    /\ UNCHANGED <<chainVars, dbAccounts, poolVars, posVars, localVars, now, loopVars, created,
                   dbFailures, blocksApplied, histVars>>

(***************************************************************************)
\* Interpreter.Run is called: the stack and the memory are created and the
\* loop is entered with contract.Code = code and contract.Gas = gas.
RunStart(evm, code, gas) ==
    /\ ~crashed
    /\ run.status # "running"
    /\ run' = [status |-> "running", evm |-> evm, input |-> code,
               Code |-> code, Gas |-> gas, executed |-> 0, err |-> "ok"]
    /\ lastCall' = Call("RunStart", "ok", [evm |-> evm, code |-> code, gas |-> gas])
    /\ UNCHANGED <<chainVars, stateVars, poolVars, posVars, localVars, now, created,
                   crashed, dbFailures, blocksApplied, histVars, stopCh, pc, posMu,
                   th, bcMu, stateMu, cacheObj>>

\* One trip of the loop of Interpreter.Run: the length check, the fetch of
\* the opcode, the gas check, the operation, the STOP/RETURN check.
RunLoop ==
    /\ ~crashed
    /\ run.status = "running"
    /\ LET opcode == Head(run.Code)
           rest == Tail(run.Code)
           gasCost == getGasCost(opcode)
           fetched == [run EXCEPT !.Code = rest, !.executed = @ + 1]
           return(r, err) == [r EXCEPT !.status = "returned", !.err = err]
       IN  run' =
             IF Len(run.Code) = 0 THEN return(run, "ok")
             ELSE IF run.evm = NilEvm THEN return(fetched, "panic")
             ELSE IF run.Gas < gasCost THEN return(fetched, "out of gas")
             ELSE IF opcode \notin JumpTableOps
                  THEN return([fetched EXCEPT !.Gas = @ - gasCost], "invalid opcode")
             ELSE IF opcode = "PUSH1"
                  THEN IF Len(rest) < 1
                       THEN return([fetched EXCEPT !.Gas = @ - gasCost],
                                   "insufficient data for PUSH")
                       ELSE [fetched EXCEPT !.Gas = @ - gasCost, !.Code = Tail(rest)]
             ELSE IF opcode = "JUMP" \/ opcode = "JUMPI"
                  THEN [fetched EXCEPT !.Gas = @ - gasCost,
                                       !.Code = opJump(rest, run.input)]
             ELSE IF opcode = "STOP" \/ opcode = "RETURN"
                  THEN return([fetched EXCEPT !.Gas = @ - gasCost], "ok")
             ELSE [fetched EXCEPT !.Gas = @ - gasCost]
    /\ crashed' = (run'.err = "panic")
    /\ lastCall' = Call("RunLoop", IF run'.status = "returned" THEN run'.err ELSE "running",
                        NoArg)
    /\ UNCHANGED <<chainVars, stateVars, poolVars, posVars, localVars, now, created,
                   dbFailures, blocksApplied, histVars, stopCh, pc, posMu,
                   th, bcMu, stateMu, cacheObj>>

(* The background loops and Stop, with the consensus engine's RWMutex.  A  *)
(* writer's critical section is one step; a writer that called Lock and    *)
(* waits for the readers to leave is the state in between.                 *)
(***************************************************************************)
\* RWMutex.RLock is granted unless a writer holds the lock or waits for it.
CanRLock(mu) == ~mu.waiting
\* RWMutex.Lock is granted once no reader holds the lock.
CanLock(mu) == mu.readers = 0

\* Blockchain.Stop: close(bc.stopCh), then wg.Wait().
Stop ==
    /\ ~crashed
    /\ pc.Stop = "idle"
    /\ stopCh' = "closed"
    /\ pc' = [pc EXCEPT !.Stop = "Wait"]
    /\ lastCall' = Call("Stop", "closed", NoArg)
    /\ UNCHANGED <<chainVars, stateVars, poolVars, posVars, localVars, now, created,
                   crashed, dbFailures, blocksApplied, histVars, posMu, goVars>>

\* Blockchain.Stop: wg.Wait() returns once both loops ran wg.Done(); the
\* store is closed and Stop returns.
StopReturn ==
    /\ pc.Stop = "Wait"
    /\ pc.blockProcessor = "returned"
    /\ pc.txProcessor = "returned"
    /\ pc' = [pc EXCEPT !.Stop = "returned"]
    /\ lastCall' = Call("Stop", "ok", NoArg)
    /\ UNCHANGED <<chainVars, stateVars, poolVars, posVars, localVars, now, created,
                   crashed, dbFailures, blocksApplied, histVars, stopCh, posMu, goVars>>

\* blockProcessor, select: case <-bc.stopCh: return.
blockProcessorStop ==
    /\ ~crashed
    /\ pc.blockProcessor = "select"
    /\ stopCh = "closed"
    /\ pc' = [pc EXCEPT !.blockProcessor = "returned"]
    /\ lastCall' = Call("blockProcessor", "returned", NoArg)
    /\ UNCHANGED <<chainVars, stateVars, poolVars, posVars, localVars, now, created,
                   crashed, dbFailures, blocksApplied, histVars, stopCh, posMu, goVars>>

\* txProcessor, select: case <-bc.stopCh: return.
txProcessorStop ==
    /\ ~crashed
    /\ pc.txProcessor = "select"
    /\ stopCh = "closed"
    /\ pc' = [pc EXCEPT !.txProcessor = "returned"]
    /\ lastCall' = Call("txProcessor", "returned", NoArg)
    /\ UNCHANGED <<chainVars, stateVars, poolVars, posVars, localVars, now, created,
                   crashed, dbFailures, blocksApplied, histVars, stopCh, posMu, goVars>>

\* txProcessor, select: case tx := <-bc.newTxCh: the transaction is added to
\* the pool.
txProcessorAdd ==
    /\ pc.txProcessor = "select"
    /\ txProcessor

\* blockProcessor, select: case <-ticker.C: tryCreateBlock up to the call of
\* ProcessBlock (IsValidator and GetValidatorAddress take the shared lock).
blockProcessorTick ==
    /\ ~crashed
    /\ pc.blockProcessor = "select"
    /\ CanRLock(posMu)
    /\ IF ~IsValidator THEN
            /\ lastCall' = Call("tryCreateBlock", "not validator", NoArg)
            /\ UNCHANGED <<txPool, created, pc>>
       ELSE IF txPool = {} THEN
            /\ lastCall' = Call("tryCreateBlock", "no transactions", NoArg)
            /\ UNCHANGED <<txPool, created, pc>>
       ELSE IF posPrivateKey = NoKey THEN
            /\ lastCall' = Call("tryCreateBlock", "failed to sign block", NoArg)
            /\ txPool' = TxPoolAfterPending(txPool)
            /\ UNCHANGED <<created, pc>>
       ELSE \E txs \in TxPoolPending(txPool) :
            /\ lastCall' = Call("tryCreateBlock", "created", NoArg)
            /\ txPool' = TxPoolAfterPending(txPool)
            /\ created' = CreateBlock(txs)
            /\ pc' = [pc EXCEPT !.blockProcessor = "ProcessBlock"]
    /\ UNCHANGED <<chainVars, stateVars, newTxCh, posVars, localVars, now, crashed,
                   dbFailures, blocksApplied, histVars, stopCh, posMu, goVars>>

\* blockProcessor in ProcessBlock(created): ValidateBlock reaches the
\* consensus ValidateBlock, which takes the shared lock (pos.mu.RLock).
blockProcessorValidate ==
    /\ ~crashed
    /\ pc.blockProcessor = "ProcessBlock"
    /\ CanRLock(posMu)
    /\ posMu' = [posMu EXCEPT !.readers = @ + 1]
    /\ pc' = [pc EXCEPT !.blockProcessor = "ValidateBlock"]
    /\ UNCHANGED <<chainVars, stateVars, poolVars, posVars, localVars, now, created,
                   crashed, lastCall, dbFailures, blocksApplied, histVars, stopCh, goVars>>

\* blockProcessor in the consensus ValidateBlock, holding the shared lock:
\* SelectValidator takes the shared lock again (pos.mu.RLock), then the
\* locks are released and ProcessBlock runs to its end.
blockProcessorProcess ==
    /\ pc.blockProcessor = "ValidateBlock"
    /\ CanRLock(posMu)
    /\ ProcessBlock(created)
    /\ created' = NoBlock
    /\ posMu' = [posMu EXCEPT !.readers = @ - 1]
    /\ pc' = [pc EXCEPT !.blockProcessor = "select"]
    /\ UNCHANGED <<poolVars, localVars, now, admitted, stopCh, goVars>>

\* RegisterValidator called through the API: pos.mu.Lock() announces the
\* writer, which waits until no reader holds the lock.
RegisterValidatorLock(address) ==
    /\ ~crashed
    /\ pc.api = "idle"
    /\ posMu' = [posMu EXCEPT !.waiting = TRUE]
    /\ pc' = [pc EXCEPT !.api = address]
    /\ UNCHANGED <<chainVars, stateVars, poolVars, posVars, localVars, now, created,
                   crashed, lastCall, dbFailures, blocksApplied, histVars, stopCh, goVars>>

\* RegisterValidator: the exclusive lock is granted, the validator is
\* registered, the lock is released.
RegisterValidatorLocked ==
    /\ ~crashed
    /\ pc.api # "idle"
    /\ CanLock(posMu)
    /\ LET address == pc.api
           err == RegisterValidatorRet(validators, address, MinStakeAmount)
       IN  /\ lastCall' = Call("RegisterValidator", err,
                               [address |-> address, stake |-> MinStakeAmount])
           /\ IF err # "ok" THEN UNCHANGED posVars
              ELSE /\ validators' = MapPut(validators, address,
                                           Validator(address, MinStakeAmount, CommissionRate,
                                                     PublicKeyOf(address)))
                   /\ totalStake' = totalStake + MinStakeAmount
                   /\ UNCHANGED delegators
    /\ posMu' = [posMu EXCEPT !.waiting = FALSE]
    /\ pc' = [pc EXCEPT !.api = "idle"]
    /\ UNCHANGED <<chainVars, stateVars, poolVars, localVars, now, created, crashed,
                   dbFailures, blocksApplied, histVars, stopCh, goVars>>

\* SetValidator called through the API while nobody holds or awaits pos.mu.
SetValidatorUncontended(address, privateKey) ==
    /\ CanLock(posMu)
    /\ CanRLock(posMu)
    /\ SetValidator(address, privateKey)

\* blockProcessor, select: case <-ticker.C: tryCreateBlock up to the call of
\* SignBlock in CreateBlock.  IsValidator and GetValidatorAddress read the
\* local validator under the shared lock; the header is built with no
\* signature and no hash yet.
blockProcessorCreateBlock ==
    /\ ~crashed
    /\ pc.blockProcessor = "select"
    /\ CanRLock(posMu)
    /\ IF ~IsValidator THEN
            /\ lastCall' = Call("tryCreateBlock", "not validator", NoArg)
            /\ UNCHANGED <<txPool, created, pc>>
       ELSE IF txPool = {} THEN
            /\ lastCall' = Call("tryCreateBlock", "no transactions", NoArg)
            /\ UNCHANGED <<txPool, created, pc>>
       ELSE \E txs \in TxPoolPending(txPool) :
            /\ lastCall' = Call("CreateBlock", "header", NoArg)
            /\ txPool' = TxPoolAfterPending(txPool)
            /\ created' = Block(Header(currentBlock.Hash, currentBlock.Header.Number + 1,
                                       posValidator, computeTxRoot(txs), NoSig),
                                txs, ZeroHash)
            /\ pc' = [pc EXCEPT !.blockProcessor = "SignBlock"]
    /\ UNCHANGED <<chainVars, stateVars, newTxCh, posVars, localVars, now, crashed,
                   dbFailures, blocksApplied, histVars, stopCh, posMu, goVars>>

\* blockProcessor in CreateBlock: SignBlock reads pos.privateKey, taking no
\* lock, and signs the hash of the header; CreateBlock stores the signature
\* and computes the hash of the block.
blockProcessorSignBlock ==
    /\ ~crashed
    /\ pc.blockProcessor = "SignBlock"
    /\ IF posPrivateKey = NoKey THEN
            /\ lastCall' = Call("tryCreateBlock", "failed to sign block", NoArg)
            /\ created' = NoBlock
            /\ pc' = [pc EXCEPT !.blockProcessor = "select"]
       ELSE LET header == [created.Header EXCEPT
                              !.Signature = Sig(posPrivateKey, "presig")]
            IN  /\ lastCall' = Call("tryCreateBlock", "created", NoArg)
                /\ created' = Block(header, created.Transactions, ComputeHash(header))
                /\ pc' = [pc EXCEPT !.blockProcessor = "ProcessBlock"]
    /\ UNCHANGED <<chainVars, stateVars, poolVars, posVars, localVars, now, crashed,
                   dbFailures, blocksApplied, histVars, stopCh, posMu, goVars>>

(***************************************************************************)
(* The block getters of the API, one access to the orchestrator's fields   *)
(* at a time.  A goroutine at a position is about to make the access the   *)
(* position names.                                                         *)
(***************************************************************************)
\* The goroutine moves on inside its call.
Going(t, call) == [th |-> [th EXCEPT ![t] = call], lastCall |-> lastCall]
\* The call of the goroutine returns.
Returning(t, op, ret, arg) ==
    [th |-> [th EXCEPT ![t] = NoCall], lastCall |-> Call(op, ret, arg)]

\* A goroutine in GetBlockByHash(hash), called by `op`.
InGetBlockByHash(op, number, hash) ==
    [at |-> "GetBlockByHash", op |-> op, number |-> number, hash |-> hash,
     block |-> NoBlock]

\* The loop of GetBlockByNumber with currentBlock = cur: the block is
\* returned, the search ends, or the parent is fetched with GetBlockByHash.
GetBlockByNumberLoop(t, number, cur) ==
    IF cur.Header.Number = number
    THEN Returning(t, "GetBlockByNumber", "ok", [number |-> number, block |-> cur])
    ELSE IF cur.Header.Number < number
    THEN Returning(t, "GetBlockByNumber", "block not found", [number |-> number])
    ELSE Going(t, InGetBlockByHash("GetBlockByNumber", number, cur.Header.ParentHash))

\* GetBlockByHash returns `block` to its caller.
GetBlockByHashFound(t, block) ==
    IF th[t].op = "GetBlockByHash"
    THEN Returning(t, "GetBlockByHash", "ok", [hash |-> th[t].hash, block |-> block])
    ELSE GetBlockByNumberLoop(t, th[t].number, block)

\* GetCurrentBlock: bc.mu.RLock().
GetCurrentBlockRLock(t) ==
    /\ ~crashed
    /\ th[t] = NoCall
    /\ CanRLock(bcMu)
    /\ bcMu' = [bcMu EXCEPT !.readers = @ + 1]
    /\ th' = [th EXCEPT ![t] = [at |-> "GetCurrentBlock"]]
    /\ UNCHANGED <<chainVars, stateVars, poolVars, posVars, localVars, now, created,
                   crashed, lastCall, dbFailures, blocksApplied, histVars, stopCh, pc,
                   posMu, run, stateMu, cacheObj>>

\* GetCurrentBlock: return bc.currentBlock, bc.mu.RUnlock().
GetCurrentBlockReturn(t) ==
    /\ ~crashed
    /\ th[t].at = "GetCurrentBlock"
    /\ bcMu' = [bcMu EXCEPT !.readers = @ - 1]
    /\ th' = [th EXCEPT ![t] = NoCall]
    /\ lastCall' = Call("GetCurrentBlock", "ok", [block |-> currentBlock])
    /\ UNCHANGED <<chainVars, stateVars, poolVars, posVars, localVars, now, created,
                   crashed, dbFailures, blocksApplied, histVars, stopCh, pc,
                   posMu, run, stateMu, cacheObj>>

\* GetBlockByHash is called; it takes no lock.
GetBlockByHashCall(t, hash) ==
    /\ ~crashed
    /\ th[t] = NoCall
    /\ th' = [th EXCEPT ![t] = InGetBlockByHash("GetBlockByHash", 0, hash)]
    /\ UNCHANGED <<chainVars, stateVars, poolVars, posVars, localVars, now, created,
                   crashed, lastCall, dbFailures, blocksApplied, histVars, stopCh, pc,
                   posMu, run, bcMu, stateMu, cacheObj>>

\* GetBlockByHash: the lookup in bc.blockCache, then in the store.
GetBlockByHashLookup(t) ==
    /\ ~crashed
    /\ th[t].at = "GetBlockByHash"
    /\ LET hash == th[t].hash
           next == IF hash \in DOMAIN blockCache
                   THEN GetBlockByHashFound(t, blockCache[hash])
                   ELSE IF hash \notin DOMAIN dbBlocks
                   THEN Returning(t, th[t].op, "block not found", [hash |-> hash])
                   ELSE Going(t, [th[t] EXCEPT !.at = "blockCache store",
                                               !.block = dbBlocks[hash]])
       IN  th' = next.th /\ lastCall' = next.lastCall
    /\ UNCHANGED <<chainVars, stateVars, poolVars, posVars, localVars, now, created,
                   crashed, dbFailures, blocksApplied, histVars, stopCh, pc,
                   posMu, run, bcMu, stateMu, cacheObj>>

\* GetBlockByHash: bc.blockCache[hash] = &block for a block read from the
\* store, and the return.
GetBlockByHashStore(t) ==
    /\ ~crashed
    /\ th[t].at = "blockCache store"
    /\ blockCache' = MapPut(blockCache, th[t].hash, th[t].block)
    /\ LET next == GetBlockByHashFound(t, th[t].block)
       IN  th' = next.th /\ lastCall' = next.lastCall
    /\ UNCHANGED <<currentBlock, dbBlocks, dbCurrent, stateVars, poolVars, posVars,
                   localVars, now, created, crashed, dbFailures, blocksApplied, histVars,
                   stopCh, pc, posMu, run, bcMu, stateMu, cacheObj>>

\* GetBlockByNumber is called; it takes no lock.
GetBlockByNumberCall(t, number) ==
    /\ ~crashed
    /\ th[t] = NoCall
    /\ th' = [th EXCEPT ![t] = [at |-> "GetBlockByNumber", number |-> number]]
    /\ UNCHANGED <<chainVars, stateVars, poolVars, posVars, localVars, now, created,
                   crashed, lastCall, dbFailures, blocksApplied, histVars, stopCh, pc,
                   posMu, run, bcMu, stateMu, cacheObj>>

\* GetBlockByNumber: currentBlock := bc.currentBlock, then the loop.
GetBlockByNumberRead(t) ==
    /\ ~crashed
    /\ th[t].at = "GetBlockByNumber"
    /\ LET next == GetBlockByNumberLoop(t, th[t].number, currentBlock)
       IN  th' = next.th /\ lastCall' = next.lastCall
    /\ UNCHANGED <<chainVars, stateVars, poolVars, posVars, localVars, now, created,
                   crashed, dbFailures, blocksApplied, histVars, stopCh, pc,
                   posMu, run, bcMu, stateMu, cacheObj>>

\* ProcessBlock called with a peer's block: bc.mu.Lock() is granted once no
\* reader holds the lock; the call runs to its end under the lock.
ProcessBlockLocked ==
    /\ CanLock(bcMu)
    /\ PeerProcessBlock

(***************************************************************************)
(* The accessors of State and of the consensus engine called by API        *)
(* goroutines, one lock operation or one access to the cache at a time.    *)
(* A goroutine at a position is about to run the statement the position    *)
(* names; it waits there while the lock cannot be granted.                 *)
(***************************************************************************)
\* s.mu.RLock() is granted unless a writer holds the lock or waits for it.
StateCanRLock == stateMu.writer = "none" /\ stateMu.waiting = {}
\* s.mu.Lock() is granted once no reader and no writer holds the lock.
StateCanLock == stateMu.readers = 0 /\ stateMu.writer = "none"

\* The accessors that call GetAccount without holding s.mu.
StateGetters == {"GetBalance", "GetNonce"}
\* The accessors that call GetAccount while they hold s.mu.Lock().
StateSetters == {"SetBalance", "SetNonce"}

\* The *Account a goroutine allocates in GetAccount for an address.
NewAccount(t, addr) == [by |-> t, for |-> addr]

\* A getter of State is called; GetAccount is about to take the shared lock.
GetAccountCall(t, op, addr) ==
    /\ ~crashed
    /\ th[t] = NoCall
    /\ op \in StateGetters
    /\ th' = [th EXCEPT ![t] = [at |-> "s.mu.RLock", op |-> op, addr |-> addr,
                                value |-> 0, account |-> NoKey]]
    /\ UNCHANGED <<chainVars, stateVars, poolVars, posVars, localVars, now, created,
                   crashed, lastCall, dbFailures, blocksApplied, histVars, stopCh, pc,
                   posMu, run, bcMu, stateMu, cacheObj>>

\* A setter of State is called: s.mu.Lock() announces the writer.
SetterLock(t, op, addr, value) ==
    /\ ~crashed
    /\ th[t] = NoCall
    /\ op \in StateSetters
    /\ stateMu' = [stateMu EXCEPT !.waiting = @ \cup {t}]
    /\ th' = [th EXCEPT ![t] = [at |-> "s.mu.Lock", op |-> op, addr |-> addr,
                                value |-> value, account |-> NoKey]]
    /\ UNCHANGED <<chainVars, stateVars, poolVars, posVars, localVars, now, created,
                   crashed, lastCall, dbFailures, blocksApplied, histVars, stopCh, pc,
                   posMu, run, bcMu, cacheObj>>

\* The setter is granted the exclusive lock and calls GetAccount, which is
\* about to take the shared lock.
SetterLocked(t) ==
    /\ ~crashed
    /\ th[t].at = "s.mu.Lock"
    /\ StateCanLock
    /\ stateMu' = [stateMu EXCEPT !.writer = t, !.waiting = @ \ {t}]
    /\ th' = [th EXCEPT ![t].at = "s.mu.RLock"]
    /\ UNCHANGED <<chainVars, stateVars, poolVars, posVars, localVars, now, created,
                   crashed, lastCall, dbFailures, blocksApplied, histVars, stopCh, pc,
                   posMu, run, bcMu, cacheObj>>

\* GetAccount: s.mu.RLock() is granted and the address is looked up in
\* s.cache; for a missing address an account is allocated and loaded.
GetAccountRLock(t) ==
    /\ ~crashed
    /\ th[t].at = "s.mu.RLock"
    /\ StateCanRLock
    /\ stateMu' = [stateMu EXCEPT !.readers = @ + 1]
    /\ th' = IF th[t].addr \in DOMAIN cacheObj
             THEN [th EXCEPT ![t].at = "s.mu.RUnlock",
                             ![t].account = cacheObj[th[t].addr]]
             ELSE [th EXCEPT ![t].at = "s.cache store",
                             ![t].account = NewAccount(t, th[t].addr)]
    /\ UNCHANGED <<chainVars, stateVars, poolVars, posVars, localVars, now, created,
                   crashed, lastCall, dbFailures, blocksApplied, histVars, stopCh, pc,
                   posMu, run, bcMu, cacheObj>>

\* GetAccount: s.cache[addr] = account.
GetAccountStore(t) ==
    /\ ~crashed
    /\ th[t].at = "s.cache store"
    /\ cacheObj' = MapPut(cacheObj, th[t].addr, th[t].account)
    /\ cache' = MapPut(cache, th[t].addr, LoadAccount(dbAccounts, th[t].addr))
    /\ th' = [th EXCEPT ![t].at = "s.mu.RUnlock"]
    /\ UNCHANGED <<chainVars, dbAccounts, poolVars, posVars, localVars, now, created,
                   crashed, lastCall, dbFailures, blocksApplied, histVars, stopCh, pc,
                   posMu, run, bcMu, stateMu>>

\* GetAccount returns the account and releases the shared lock.  A getter
\* goes on with the account; a setter writes through it, releases the
\* exclusive lock and returns.
GetAccountReturn(t) ==
    /\ ~crashed
    /\ th[t].at = "s.mu.RUnlock"
    /\ IF th[t].op \in StateGetters THEN
            /\ stateMu' = [stateMu EXCEPT !.readers = @ - 1]
            /\ th' = [th EXCEPT ![t].at = "account"]
            /\ UNCHANGED <<cache, lastCall>>
       ELSE /\ stateMu' = [stateMu EXCEPT !.readers = @ - 1, !.writer = "none"]
            /\ th' = [th EXCEPT ![t] = NoCall]
            /\ cache' = IF cacheObj[th[t].addr] # th[t].account THEN cache
                        ELSE IF th[t].op = "SetNonce"
                        THEN [cache EXCEPT ![th[t].addr].Nonce = th[t].value]
                        ELSE [cache EXCEPT ![th[t].addr].Balance = th[t].value]
            /\ lastCall' = Call(th[t].op, "ok", [addr |-> th[t].addr])
    /\ UNCHANGED <<chainVars, dbAccounts, poolVars, posVars, localVars, now, created,
                   crashed, dbFailures, blocksApplied, histVars, stopCh, pc,
                   posMu, run, bcMu, cacheObj>>

\* The getter reads the field of the account it was given and returns.
AccountRead(t) ==
    /\ ~crashed
    /\ th[t].at = "account"
    /\ th' = [th EXCEPT ![t] = NoCall]
    /\ lastCall' = Call(th[t].op, "ok", [addr |-> th[t].addr, account |-> th[t].account])
    /\ UNCHANGED <<chainVars, stateVars, poolVars, posVars, localVars, now, created,
                   crashed, dbFailures, blocksApplied, histVars, stopCh, pc,
                   posMu, run, bcMu, stateMu, cacheObj>>

\* The consensus ValidateBlock is called: pos.mu.RLock() is granted, and
\* SelectValidator is about to take the shared lock again.
PosValidateBlockRLock(t, block) ==
    /\ ~crashed
    /\ th[t] = NoCall
    /\ CanRLock(posMu)
    /\ posMu' = [posMu EXCEPT !.readers = @ + 1]
    /\ th' = [th EXCEPT ![t] = [at |-> "pos.mu.RLock", op |-> "ValidateBlock",
                                block |-> block]]
    /\ UNCHANGED <<chainVars, stateVars, poolVars, posVars, localVars, now, created,
                   crashed, lastCall, dbFailures, blocksApplied, histVars, stopCh, pc,
                   run, bcMu, stateMu, cacheObj>>

\* The consensus ValidateBlock: SelectValidator is granted the shared lock,
\* draws the producer and releases it; the block is checked and the lock of
\* ValidateBlock is released.
PosSelectValidatorRLock(t) ==
    /\ ~crashed
    /\ th[t].at = "pos.mu.RLock"
    /\ CanRLock(posMu)
    /\ posMu' = [posMu EXCEPT !.readers = @ - 1]
    /\ th' = [th EXCEPT ![t] = NoCall]
    /\ \E expected \in SelectValidator(validators) :
          lastCall' = Call("PoS.ValidateBlock",
                           PosValidateBlock(validators, th[t].block, expected), NoArg)
    /\ UNCHANGED <<chainVars, stateVars, poolVars, posVars, localVars, now, created,
                   crashed, dbFailures, blocksApplied, histVars, stopCh, pc,
                   run, bcMu, stateMu, cacheObj>>

\* RegisterValidator is called: pos.mu.Lock() announces the writer.
PosRegisterValidatorLock(t, address) ==
    /\ ~crashed
    /\ th[t] = NoCall
    /\ ~posMu.waiting
    /\ posMu' = [posMu EXCEPT !.waiting = TRUE]
    /\ th' = [th EXCEPT ![t] = [at |-> "pos.mu.Lock", op |-> "RegisterValidator",
                                address |-> address]]
    /\ UNCHANGED <<chainVars, stateVars, poolVars, posVars, localVars, now, created,
                   crashed, lastCall, dbFailures, blocksApplied, histVars, stopCh, pc,
                   run, bcMu, stateMu, cacheObj>>

\* RegisterValidator: the exclusive lock is granted, the validator is
\* registered, the lock is released.
PosRegisterValidatorLocked(t) ==
    /\ ~crashed
    /\ th[t].at = "pos.mu.Lock"
    /\ CanLock(posMu)
    /\ LET address == th[t].address
           err == RegisterValidatorRet(validators, address, MinStakeAmount)
       IN  /\ lastCall' = Call("RegisterValidator", err,
                               [address |-> address, stake |-> MinStakeAmount])
           /\ IF err # "ok" THEN UNCHANGED posVars
              ELSE /\ validators' = MapPut(validators, address,
                                           Validator(address, MinStakeAmount, CommissionRate,
                                                     PublicKeyOf(address)))
                   /\ totalStake' = totalStake + MinStakeAmount
                   /\ UNCHANGED delegators
    /\ posMu' = [posMu EXCEPT !.waiting = FALSE]
    /\ th' = [th EXCEPT ![t] = NoCall]
    /\ UNCHANGED <<chainVars, stateVars, poolVars, localVars, now, created, crashed,
                   dbFailures, blocksApplied, histVars, stopCh, pc,
                   run, bcMu, stateMu, cacheObj>>

\* Time passes.
Tick ==
    /\ ~crashed
    /\ now < MaxTime
    /\ now' = now + 1
    /\ lastCall' = Call("Tick", "ok", NoArg)
    /\ UNCHANGED <<chainVars, stateVars, poolVars, posVars, localVars, loopVars, created, crashed,
                   dbFailures, blocksApplied, histVars>>

(***************************************************************************)
(* Specifications.                                                         *)
(***************************************************************************)
\* NewBlockchain on an empty store: the genesis block is written and made
\* the tip; NewState, NewPoS and NewTxPool start empty.
Init ==
    /\ currentBlock = createGenesisBlock
    /\ blockCache = MapPut(EmptyMap, createGenesisBlock.Hash, createGenesisBlock)
    /\ dbBlocks = MapPut(EmptyMap, createGenesisBlock.Hash, createGenesisBlock)
    /\ dbCurrent = createGenesisBlock.Hash
    /\ cache = EmptyMap
    /\ dbAccounts = EmptyMap
    /\ txPool = {}
    /\ newTxCh = <<>>
    /\ validators = EmptyMap
    /\ delegators = EmptyMap
    /\ totalStake = 0
    /\ posValidator = ZeroAddress
    /\ posPrivateKey = NoKey
    /\ created = NoBlock
    /\ crashed = FALSE
    /\ lastCall = Call("NewBlockchain", "ok", NoArg)
    /\ dbFailures = 0
    /\ blocksApplied = 0
    /\ admitted = {}
    /\ included = [t \in Transactions |-> 0]
    /\ now = 0
    /\ stopCh = "open"
    /\ pc = [blockProcessor |-> "select", txProcessor |-> "select",
             Stop |-> "idle", api |-> "idle"]
    /\ posMu = [readers |-> 0, waiting |-> FALSE]
    /\ run = NoRun
    /\ th = [t \in Threads |-> NoCall]
    /\ bcMu = [readers |-> 0, waiting |-> FALSE]
    /\ stateMu = [readers |-> 0, writer |-> "none", waiting |-> {}]
    /\ cacheObj = EmptyMap

\* Block processing: blocks arrive from peers, the API funds an account,
\* validators register.
Next ==
    \/ PeerProcessBlock
    \/ \E balance \in BalanceInputs : SetBalance("a1", balance)
    \/ \E a \in Addr : RegisterValidator(a, MinStakeAmount, CommissionRate, PublicKeyOf(a))

Spec == Init /\ [][Next]_vars

\* The transaction pool: AddTransaction, the txProcessor loop, the block
\* production tick, and blocks of peers that extend the tip.
NextPool ==
    \/ \E tx \in Transactions \ {TxCreate} : AddTransaction(tx)
    \/ txProcessor
    \/ tryCreateBlock
    \/ tryCreateBlockProcess
    \/ PeerProcessTipBlock
    \/ \E balance \in BalanceInputs : SetBalance("a1", balance)
    \/ SetValidator("a1", "a1")
    \/ RegisterValidator("a1", MinStakeAmount, CommissionRate, PublicKeyOf("a1"))

SpecPool == Init /\ [][NextPool]_vars

\* The consensus engine alone.
NextPoS ==
    \/ \E a \in PosAddr, stake \in {MinStakeAmount - 1, MinStakeAmount, MinStakeAmount + 1} :
            RegisterValidator(a, stake, CommissionRate, PublicKeyOf(a))
    \/ \E a \in PosAddr : Slash(a)

SpecPoS == Init /\ [][NextPoS]_vars

\* Delegators.
Delegators == {"d1"}
\* Amounts passed to Delegate and Unbond: *big.Int values, negative ones
\* included (neither operation looks at the sign).
DelegateAmounts == {0 - MinStakeAmount, 3}
UnbondAmounts == {1, 3}

\* Staking: validators register and are slashed, delegators delegate, unbond
\* and complete unbonding while time passes, blocks are credited.
NextStake ==
    \/ \E a \in Addr : RegisterValidator(a, MinStakeAmount, CommissionRate, PublicKeyOf(a))
    \/ Slash("a1")
    \/ \E d \in Delegators, a \in Addr, amount \in DelegateAmounts : Delegate(d, a, amount)
    \/ \E d \in Delegators, a \in Addr, amount \in UnbondAmounts : Unbond(d, a, amount)
    \/ \E d \in Delegators, a \in Addr : CompleteUnbonding(d, a)
    \/ UpdateBlock("a1")
    \/ Tick

SpecStake == Init /\ [][NextStake]_vars

\* Contract codes stored by SetCode.
Codes == {<<"ADD">>, <<"PUSH1", "ADD", "ADD">>, <<"POP", "STOP">>, <<"ADD", "ADD">>}

\* Execution: the API funds accounts and stores code, transactions are
\* executed one by one.
\* Codes and gas handed to Interpreter.Run directly.
RunCodes == Codes \cup {<<"STOP", "ADD">>, <<"RETURN">>, <<"PUSH1">>}
RunGas == {1, 4, 6}

NextVM ==
    \/ \E a \in Addr, balance \in BalanceInputs : SetBalance(a, balance)
    \/ \E a \in Addr, code \in Codes : SetCode(a, code)
    \/ \E tx \in {TxTransfer, TxBadSig, TxHugeGas, TxCreate} : ExecuteTransaction(tx)
    \/ \E evm \in {NilEvm, WiredEvm}, code \in RunCodes, gas \in RunGas :
            RunCall(evm, code, gas)

SpecVM == Init /\ [][NextVM]_vars

\* Values the API writes to accounts.
StateBalances == {0 - 1, 3}
StateNonces == {1}
StateCodes == {<<"ADD">>, <<"POP", "STOP">>}

\* The account state: setters, reads and Commit called through the API.
NextState ==
    \/ \E a \in Addr, nonce \in StateNonces : SetNonce(a, nonce)
    \/ \E a \in Addr, balance \in StateBalances : SetBalance(a, balance)
    \/ \E a \in Addr, code \in StateCodes : SetCode(a, code)
    \/ \E a \in Addr : GetBalanceCall(a)
    \/ Commit

SpecState == Init /\ [][NextState]_vars

\* Block validation: the API validates blocks of peers before and after
\* validators register and an account is funded.
NextValidate ==
    \/ \E block \in PeerBlocks \cup {TestBlock} : ValidateBlockCall(block)
    \/ \E a \in Addr : RegisterValidator(a, MinStakeAmount, CommissionRate, PublicKeyOf(a))
    \/ \E balance \in BalanceInputs : SetBalance("a1", balance)

SpecValidate == Init /\ [][NextValidate]_vars

\* Shutdown: the node is set up as a validator with a funded account and a
\* pending transaction while the two loops run; validators register through
\* the API; Stop is called at any moment.  A select whose stop case is ready
\* picks among its ready cases at random, so the stop case is taken
\* eventually; a reader blocked by a writer is granted the lock when that
\* writer unlocks, before the next writer (strong fairness for both); a step
\* that stays possible is taken (weak fairness).
NextStop ==
    \/ SetValidatorUncontended("a1", "a1")
    \/ \E a \in Addr : RegisterValidatorLock(a)
    \/ RegisterValidatorLocked
    \/ \E balance \in BalanceInputs : SetBalance("a1", balance)
    \/ AddTransaction(TxTransfer)
    \/ txProcessorAdd
    \/ txProcessorStop
    \/ blockProcessorTick
    \/ blockProcessorValidate
    \/ blockProcessorProcess
    \/ blockProcessorStop
    \/ Stop
    \/ StopReturn

SpecStop ==
    /\ Init
    /\ [][NextStop]_vars
    /\ SF_vars(blockProcessorStop)
    /\ SF_vars(txProcessorStop)
    /\ SF_vars(blockProcessorValidate)
    /\ SF_vars(blockProcessorProcess)
    /\ WF_vars(RegisterValidatorLocked)
    /\ WF_vars(StopReturn)

\* Block production with several validators: validators register, the node
\* is given its validator identity, transactions are admitted and the block
\* production tick builds and processes blocks.
NextProduce ==
    \/ \E a \in Addr : RegisterValidator(a, MinStakeAmount, CommissionRate, PublicKeyOf(a))
    \/ \E a \in Addr : SetValidator(a, a)
    \/ \E balance \in BalanceInputs : SetBalance("a1", balance)
    \/ AddTransaction(TxTransfer)
    \/ txProcessor
    \/ tryCreateBlock
    \/ tryCreateBlockProcess

SpecProduce == Init /\ [][NextProduce]_vars

\* The opcodes of the codes given to the interpreter loop.
RunLoopOps == {"ADD", "PUSH1", "JUMP", "JUMPI", "STOP"}
\* Longest code given to the interpreter loop.
MaxCodeLen == 3
\* Codes given to the interpreter loop: every code of at most MaxCodeLen
\* bytes over RunLoopOps.
RunLoopCodes == UNION {[1..n -> RunLoopOps] : n \in 0..MaxCodeLen}
\* Gas given to the interpreter loop.
RunLoopGas == {0, 4, 8}

\* The interpreter loop: Run is called on a code and proceeds one trip of
\* its loop at a time.  The goroutine that called Run keeps running.
NextRun ==
    \/ \E evm \in {NilEvm, WiredEvm}, code \in RunLoopCodes, gas \in RunLoopGas :
            RunStart(evm, code, gas)
    \/ RunLoop

SpecRun == Init /\ [][NextRun]_vars /\ WF_vars(RunLoop)

\* Block signing: the node's validator identity is set through the API
\* while the block production tick builds, signs and processes blocks.
NextSign ==
    \/ \E a \in Addr : RegisterValidator(a, MinStakeAmount, CommissionRate, PublicKeyOf(a))
    \/ \E a \in Addr : SetValidatorUncontended(a, a)
    \/ \E balance \in BalanceInputs : SetBalance("a1", balance)
    \/ AddTransaction(TxTransfer)
    \/ blockProcessorCreateBlock
    \/ blockProcessorSignBlock
    \/ blockProcessorValidate
    \/ blockProcessorProcess

SpecSign == Init /\ [][NextSign]_vars

\* The block getters called by one API goroutine while blocks of peers are
\* processed.
NextGetters ==
    \/ RegisterValidator("a1", MinStakeAmount, CommissionRate, PublicKeyOf("a1"))
    \/ ProcessBlockLocked
    \/ GetCurrentBlockRLock("t1")
    \/ GetCurrentBlockReturn("t1")
    \/ \E hash \in KnownHashes \cup {ZeroHash} : GetBlockByHashCall("t1", hash)
    \/ GetBlockByHashLookup("t1")
    \/ GetBlockByHashStore("t1")
    \/ \E number \in 0..MaxNumber : GetBlockByNumberCall("t1", number)
    \/ GetBlockByNumberRead("t1")

SpecGetters == Init /\ [][NextGetters]_vars

\* Addresses the goroutines read and write in State.
StateAddr == {"a1", "a2"}

\* One step of goroutine t in an accessor of State or of the consensus
\* engine.
LockStep(t) ==
    \/ \E op \in StateGetters, addr \in StateAddr : GetAccountCall(t, op, addr)
    \/ \E op \in StateSetters, addr \in StateAddr : SetterLock(t, op, addr, 1)
    \/ SetterLocked(t)
    \/ GetAccountRLock(t)
    \/ GetAccountStore(t)
    \/ GetAccountReturn(t)
    \/ AccountRead(t)
    \/ PosValidateBlockRLock(t, TestBlock)
    \/ PosSelectValidatorRLock(t)
    \/ PosRegisterValidatorLock(t, "a1")
    \/ PosRegisterValidatorLocked(t)

\* Two API goroutines in the accessors of State and of the consensus
\* engine.
NextLocks == \E t \in Threads : LockStep(t)

\* A goroutine that can run keeps running.  A goroutine that waits for a
\* lock is granted it when the lock is free again and again: the RWMutex
\* hands the lock to the readers that wait at Unlock, and to a waiting
\* writer when the last reader leaves.
SpecLocks ==
    /\ Init
    /\ [][NextLocks]_vars
    /\ \A t \in Threads :
          /\ WF_vars(GetAccountStore(t))
          /\ WF_vars(GetAccountReturn(t))
          /\ WF_vars(AccountRead(t))
          /\ SF_vars(GetAccountRLock(t))
          /\ SF_vars(SetterLocked(t))
          /\ SF_vars(PosSelectValidatorRLock(t))
          /\ SF_vars(PosRegisterValidatorLocked(t))

(***************************************************************************)
(* Properties.                                                             *)
(***************************************************************************)
\* The step is a call of ProcessBlock that returned nil.
ProcessBlockSucceeded == lastCall'.op = "ProcessBlock" /\ lastCall'.ret = "ok"

\* The errors ProcessBlock returns from ValidateBlock.
ValidationErrors ==
    {"invalid block", "parent block not found", "invalid validator",
     "block signature missing", "validator not found", "invalid block signature",
     "invalid signature", "invalid nonce", "insufficient balance", "gas price too low"}

\* The errors ProcessBlock returns after validation passed.
ApplicationErrors ==
    {"failed to execute transactions", "failed to commit state", "failed to write block"}

\* The account values GetNonce / GetBalance / GetCode read do not change in
\* the step.
AccountValuesUnchanged ==
    \A a \in Addr : GetAccount(cache', dbAccounts', a) = GetAccount(cache, dbAccounts, a)

\* C1: whenever ProcessBlock succeeds and advances currentBlock to a block
\* B, B.Header.ParentHash is the hash of the block that was currentBlock
\* just before.
C1_ParentIsPreviousTip ==
    [][ProcessBlockSucceeded => currentBlock'.Header.ParentHash = currentBlock.Hash]_vars

\* The chain from block b back to genesis, at most `depth` links long, is
\* linked: each block's parent is known, is the block its ParentHash is the
\* hash of, and has the number one below.
RECURSIVE Linked(_, _)
Linked(b, depth) ==
    \/ b = createGenesisBlock
    \/ depth = 0
    \/ /\ b.Header.ParentHash \in KnownHashes
       /\ LET parent == GetBlockByHash(b.Header.ParentHash) IN
            /\ b.Header.ParentHash = ComputeHash(parent.Header)
            /\ b.Header.Number = parent.Header.Number + 1
            /\ Linked(parent, depth - 1)

\* C2: every block reachable from currentBlock by ParentHash, except
\* genesis, has the number of its parent plus one and the hash of its parent
\* as ParentHash; no block numbered 0 or skipping a height becomes
\* currentBlock.
C2_BlockLinkage == Linked(currentBlock, MaxBlocks + 1)

\* The number of transactions sent by account a in the applied blocks.
RECURSIVE AppliedFrom(_, _)
AppliedFrom(a, S) ==
    IF S = {} THEN 0
    ELSE LET t == CHOOSE x \in S : TRUE
         IN  (IF t.From = a THEN included[t] ELSE 0) + AppliedFrom(a, S \ {t})

\* C3: for every account A, after N transactions sent by A were applied by
\* successful ProcessBlock calls, GetNonce(A) is N.
C3_NonceCountsApplied ==
    (lastCall.op = "ProcessBlock" /\ lastCall.ret = "ok")
        => \A a \in Addr : GetNonce(a) = AppliedFrom(a, Transactions)

\* The four checks of ValidateTransaction as they are specified, on the
\* state before the call: TRUE when one of them fails.
TransactionIsInvalid(tx) ==
    LET account == GetAccount(cache, dbAccounts, tx.From) IN
    \/ ~VerifySignature(tx)
    \/ tx.Nonce # account.Nonce
    \/ account.Balance < tx.GasPrice * tx.GasLimit + tx.Value
    \/ tx.GasPrice < MinGasPrice

\* C4: ValidateTransaction(tx) returns an error exactly when the signature
\* does not verify, the nonce differs from the sender's, the balance is
\* below GasPrice*GasLimit + Value or GasPrice is below MinGasPrice, and it
\* changes no account value.
C4_ValidateTransactionChecks ==
    [][lastCall'.op = "AddTransaction"
        => /\ (lastCall'.ret # "ok") <=> TransactionIsInvalid(lastCall'.arg)
           /\ AccountValuesUnchanged]_vars

\* C5: when ValidateTransaction fails for tx, AddTransaction returns that
\* error, and tx is neither put in the pending pool nor sent on the
\* new-transaction channel.
C5_RejectedNotQueued ==
    [][(/\ lastCall'.op = "AddTransaction"
        /\ ValidateTransaction(cache, dbAccounts, lastCall'.arg) # "ok")
        => /\ lastCall'.ret = ValidateTransaction(cache, dbAccounts, lastCall'.arg)
           /\ txPool' = txPool
           /\ newTxCh' = newTxCh]_vars

\* C5 happens: AddTransaction rejected a transaction while others are
\* pending, and the rejected one is not in the pool.
C5_Witness ==
    /\ lastCall.op = "AddTransaction"
    /\ lastCall.ret \in {"invalid signature", "invalid nonce", "insufficient balance",
                         "gas price too low"}
    /\ txPool # {}
    /\ lastCall.arg \notin txPool

\* C6: a block with one transfer of value V from A to B was applied: the
\* balance of A went down by V and the balance of B went up by V.
C6_TransferMovesBalance ==
    [][(/\ ProcessBlockSucceeded
        /\ Len(lastCall'.arg) = 1
        /\ lastCall'.arg[1].To # NilTo)
        => LET tx == lastCall'.arg[1] IN
            /\ GetAccount(cache', dbAccounts', tx.From).Balance + tx.Value
                    = GetAccount(cache, dbAccounts, tx.From).Balance
            /\ GetAccount(cache', dbAccounts', tx.To).Balance
                    = GetAccount(cache, dbAccounts, tx.To).Balance + tx.Value]_vars

\* C7: when ProcessBlock returns an error from executing the transactions,
\* from Commit or from writeBlock, the account values, the store and
\* currentBlock are as before the call.
C7_FailedBlockNotApplied ==
    [][(lastCall'.op = "ProcessBlock" /\ lastCall'.ret \in ApplicationErrors)
        => /\ AccountValuesUnchanged
           /\ dbAccounts' = dbAccounts
           /\ dbBlocks' = dbBlocks
           /\ dbCurrent' = dbCurrent
           /\ currentBlock' = currentBlock]_vars

\* C8: when the validation of the block fails, ProcessBlock returns the
\* error, executes none of its transactions, and leaves currentBlock, the
\* account state and the validator registry as they were.
C8_InvalidBlockChangesNothing ==
    [][(lastCall'.op = "ProcessBlock" /\ lastCall'.ret \in ValidationErrors)
        => /\ AccountValuesUnchanged
           /\ dbAccounts' = dbAccounts
           /\ included' = included
           /\ currentBlock' = currentBlock
           /\ dbCurrent' = dbCurrent
           /\ dbBlocks' = dbBlocks
           /\ posVars' = posVars]_vars

\* C8 happens: a block was rejected for an invalid transaction while a
\* validator is registered and an account holds a balance.
C8_Witness ==
    /\ lastCall.op = "ProcessBlock"
    /\ lastCall.ret \in {"invalid signature", "invalid nonce", "insufficient balance",
                         "gas price too low"}
    /\ DOMAIN validators # {}
    /\ GetBalance("a1") > 0

\* C9: a transaction admitted to the pool is in at most one applied block,
\* and once a block containing it was applied it is not in the pending pool.
C9_IncludedOnce ==
    \A tx \in admitted :
        /\ included[tx] <= 1
        /\ included[tx] >= 1 => tx \notin txPool

\* C10: RegisterValidator fails exactly when the stake is below
\* MinStakeAmount, or the number of Active validators is MaxValidators, or
\* the address is registered; otherwise it stores an Active validator with
\* the stake and no delegation and adds the stake to totalStake.
C10_RegisterValidator ==
    [][lastCall'.op = "RegisterValidator"
        => LET address == lastCall'.arg.address
               stake == lastCall'.arg.stake
               fails == \/ stake < MinStakeAmount
                        \/ Cardinality(getActiveValidators(validators)) = MaxValidators
                        \/ address \in DOMAIN validators
           IN  /\ (lastCall'.ret # "ok") <=> fails
               /\ ~fails => /\ address \in DOMAIN validators'
                            /\ validators'[address].Status = "Active"
                            /\ validators'[address].Stake = stake
                            /\ validators'[address].TotalDelegated = 0
                            /\ totalStake' = totalStake + stake]_vars

\* The sum of the amounts of the delegations to validator a, in the given
\* status, over the slices of the delegators in D.
RECURSIVE SliceAmount(_, _, _, _)
SliceAmount(slice, i, a, status) ==
    IF i > Len(slice) THEN 0
    ELSE (IF slice[i].Validator = a /\ slice[i].Status = status
          THEN slice[i].Amount ELSE 0) + SliceAmount(slice, i + 1, a, status)

RECURSIVE DelegatedAmount(_, _, _)
DelegatedAmount(D, a, status) ==
    IF D = {} THEN 0
    ELSE LET d == CHOOSE x \in D : TRUE
         IN  SliceAmount(delegators[d], 1, a, status) + DelegatedAmount(D \ {d}, a, status)

C12_Delegate ==
    [][lastCall'.op = "Delegate"
        => LET d == lastCall'.arg.delegator
               v == lastCall'.arg.validator
               amount == lastCall'.arg.amount
               fails == v \notin DOMAIN validators \/ validators[v].Status # "Active"
               before == DelegationsOf(delegators, d)
           IN  /\ (lastCall'.ret # "ok") <=> fails
               /\ ~fails =>
                    /\ DOMAIN delegators' = DOMAIN delegators \cup {d}
                    /\ Len(delegators'[d]) = Len(before) + 1
                    /\ \A i \in 1..Len(before) : delegators'[d][i] = before[i]
                    /\ delegators'[d][Len(before) + 1].Delegator = d
                    /\ delegators'[d][Len(before) + 1].Validator = v
                    /\ delegators'[d][Len(before) + 1].Amount = amount
                    /\ delegators'[d][Len(before) + 1].Status = "Active"
                    /\ \A e \in DOMAIN delegators \ {d} : delegators'[e] = delegators[e]
                    /\ DOMAIN validators' = DOMAIN validators
                    /\ validators'[v] = [validators[v] EXCEPT
                                            !.TotalDelegated = @ + amount]
                    /\ \A a \in DOMAIN validators \ {v} : validators'[a] = validators[a]
                    /\ totalStake' = totalStake + amount]_vars

\* C12 happens: a second delegation was appended while the other validator
\* is registered too, and a Delegate to a slashed validator was refused.
C12_Witness ==
    /\ lastCall.op = "Delegate"
    /\ lastCall.ret = "ok"
    /\ Len(delegators[lastCall.arg.delegator]) = 2
    /\ Cardinality(DOMAIN validators) = 2

\* C13: Unbond(d, v, amount) fails if d has no Active delegation to v;
\* otherwise it marks d's first Active delegation to v Unbonding with
\* unbondTime = now + unbondingPeriod and takes min(amount, its amount) from
\* v.TotalDelegated and from totalStake, changing no other delegation.
C13_Unbond ==
    [][lastCall'.op = "Unbond"
        => LET d == lastCall'.arg.delegator
               v == lastCall'.arg.validator
               amount == lastCall'.arg.amount
               before == DelegationsOf(delegators, d)
               i == FirstDelegation(before, v, "Active")
               least == IF amount < before[i].Amount THEN amount ELSE before[i].Amount
           IN  /\ (lastCall'.ret # "ok") <=> (i = 0)
               /\ i # 0 =>
                    /\ DOMAIN delegators' = DOMAIN delegators
                    /\ delegators'[d][i] = [before[i] EXCEPT
                                               !.Status = "Unbonding",
                                               !.UnbondTime = now + UnbondingPeriod]
                    /\ \A j \in 1..Len(before) : j # i => delegators'[d][j] = before[j]
                    /\ Len(delegators'[d]) = Len(before)
                    /\ \A e \in DOMAIN delegators \ {d} : delegators'[e] = delegators[e]
                    /\ validators'[v].TotalDelegated = validators[v].TotalDelegated - least
                    /\ totalStake' = totalStake - least]_vars

\* C13 happens: Unbond took the second of two delegations, the first one
\* being Unbonding already, with an amount above the delegation's.
C13_Witness ==
    /\ lastCall.op = "Unbond"
    /\ lastCall.ret = "ok"
    /\ LET slice == delegators[lastCall.arg.delegator] IN
        /\ Len(slice) = 2
        /\ slice[1].Validator = slice[2].Validator
        /\ slice[1].Status = "Unbonding"
        /\ slice[2].Status = "Unbonding"
        /\ slice[2].UnbondTime = now + UnbondingPeriod
        /\ lastCall.arg.amount > slice[2].Amount

\* C14: each validator's TotalDelegated is the sum of the amounts of its
\* delegations in status Active.
C14_TotalDelegatedIsActiveSum ==
    \A a \in DOMAIN validators :
        validators[a].TotalDelegated = DelegatedAmount(DOMAIN delegators, a, "Active")

\* C15: for a delegation that is Unbonding, CompleteUnbonding returns an
\* error before its unbondTime and leaves it Unbonding; at or after
\* unbondTime it succeeds, marks it Completed and returns amount + rewards;
\* with no Unbonding delegation left the call fails, and a Completed
\* delegation stays Completed.
C15_CompleteUnbonding ==
    [][/\ lastCall'.op = "CompleteUnbonding"
          => LET d == lastCall'.arg.delegator
                 v == lastCall'.arg.validator
                 before == DelegationsOf(delegators, d)
                 i == FirstDelegation(before, v, "Unbonding")
             IN  IF i = 0 \/ now < before[i].UnbondTime
                 THEN lastCall'.ret # "ok" /\ delegators' = delegators
                 ELSE /\ lastCall'.ret = "ok"
                      /\ lastCall'.arg.returnAmount = before[i].Amount + before[i].Rewards
                      /\ delegators' = [delegators EXCEPT ![d][i].Status = "Completed"]
       /\ \A d \in DOMAIN delegators : \A i \in 1..Len(delegators[d]) :
            delegators[d][i].Status = "Completed"
                => delegators'[d][i].Status = "Completed"]_vars

\* C15 happens: after a delegation was completed, a further
\* CompleteUnbonding for the same delegator and validator failed.
C15_Witness ==
    /\ lastCall.op = "CompleteUnbonding"
    /\ lastCall.ret = "unbonding delegation not found"
    /\ lastCall.arg.delegator \in DOMAIN delegators
    /\ \E i \in 1..Len(delegators[lastCall.arg.delegator]) :
            /\ delegators[lastCall.arg.delegator][i].Status = "Completed"
            /\ delegators[lastCall.arg.delegator][i].Validator = lastCall.arg.validator

\* C16: SelectValidator returns the zero address or the address of an
\* Active validator, and with exactly one Active validator it returns that
\* validator for every draw.
C16_SelectValidator ==
    /\ \A r \in SelectValidator(validators) :
            r = ZeroAddress \/ r \in getActiveValidators(validators)
    /\ Cardinality(getActiveValidators(validators)) = 1
            => SelectValidator(validators) = getActiveValidators(validators)

\* C17: a validator is Active from registration, it stays registered, and
\* once Slashed it stays Slashed; a Slash of a slashed validator and a
\* registration of a registered address fail.
C17_StatusMovesForward ==
    [][/\ \A a \in DOMAIN validators :
            /\ a \in DOMAIN validators'
            /\ validators[a].Status = "Slashed" => validators'[a].Status = "Slashed"
       /\ \A a \in DOMAIN validators' \ DOMAIN validators :
            validators'[a].Status = "Active"
       /\ (lastCall'.op = "Slash" /\ lastCall'.arg.address \in DOMAIN validators
              /\ validators[lastCall'.arg.address].Status = "Slashed")
            => lastCall'.ret # "ok"
       /\ (lastCall'.op = "RegisterValidator"
              /\ lastCall'.arg.address \in DOMAIN validators)
            => lastCall'.ret # "ok"]_vars

\* C17 happens: a slashed validator was slashed again and the call failed,
\* other validators having been registered and delegated to since.
C17_Witness ==
    /\ lastCall.op = "Slash"
    /\ lastCall.ret = "validator already slashed"
    /\ validators[lastCall.arg.address].Status = "Slashed"
    /\ Cardinality(DOMAIN validators) = 2

\* C18: Slash(v) fails if v is unknown or already Slashed; otherwise it
\* takes one amount, SlashRate/1000 of v.Stake + v.TotalDelegated, from
\* v.Stake and from totalStake, sets the status to Slashed and leaves
\* v.TotalDelegated and all delegations unchanged.
C18_Slash ==
    [][lastCall'.op = "Slash"
        => LET v == lastCall'.arg.address
               fails == v \notin DOMAIN validators \/ validators[v].Status = "Slashed"
               amount == (SlashRate * (validators[v].Stake + validators[v].TotalDelegated))
                            \div 1000
           IN  /\ (lastCall'.ret # "ok") <=> fails
               /\ ~fails =>
                    /\ validators'[v] = [validators[v] EXCEPT
                                            !.Stake = @ - amount, !.Status = "Slashed"]
                    /\ validators'[v].TotalDelegated = validators[v].TotalDelegated
                    /\ totalStake' = totalStake - amount
                    /\ delegators' = delegators
                    /\ \A a \in DOMAIN validators \ {v} : validators'[a] = validators[a]]_vars

\* C18 happens: a validator holding delegated stake was slashed.
C18_Witness ==
    /\ lastCall.op = "Slash"
    /\ lastCall.ret = "ok"
    /\ validators[lastCall.arg.address].TotalDelegated > 0
    /\ validators[lastCall.arg.address].Status = "Slashed"

\* C19: the reward distribution UpdateBlock triggers never divides by zero.
C19_NoDivisionByZero ==
    ~(lastCall.op = "UpdateBlock" /\ lastCall.ret = "panic")

\* C20: every ExecuteTransaction returns a receipt whose gasUsed is between
\* 0 and tx.GasLimit, and an execution that runs out of gas returns a receipt
\* with status 0 and gasUsed = GasLimit minus the gas left at the failing
\* opcode.
C20_GasUsedWithinLimit ==
    lastCall.op = "ExecuteTransaction"
        => /\ "receipt" \in DOMAIN lastCall.arg
           /\ lastCall.arg.receipt.GasUsed \in 0..lastCall.arg.tx.GasLimit
           /\ lastCall.ret = "out of gas"
                => /\ lastCall.arg.receipt.Status = 0
                   /\ lastCall.arg.receipt.GasUsed <= lastCall.arg.tx.GasLimit


\* The code needs more gas than the limit: run with a wired interpreter it
\* ends with "out of gas".
NeedsMoreGas(code, gasLimit) == Run(WiredEvm, code, gasLimit).err = "out of gas"

\* C21: a contract call whose code needs more gas than tx.GasLimit returns a
\* receipt with status 0 and gasUsed = gasLimit; the gas an interpreter
\* leaves in the contract when it runs out of gas is what the receipt
\* subtracts from gasLimit, so it is 0.
C21_OutOfGasUsesWholeLimit ==
    /\ (/\ lastCall.op = "ExecuteTransaction"
        /\ lastCall.arg.tx.To # NilTo
        /\ NeedsMoreGas(GetCode(lastCall.arg.tx.To), lastCall.arg.tx.GasLimit))
            => /\ "receipt" \in DOMAIN lastCall.arg
               /\ lastCall.arg.receipt.Status = 0
               /\ lastCall.arg.receipt.GasUsed = lastCall.arg.tx.GasLimit
    /\ (lastCall.op = "Run" /\ lastCall.ret = "out of gas")
            => lastCall.arg.gasLeft = 0

\* The run reaches a STOP or RETURN opcode with enough gas for it.
RECURSIVE ReachesHalt(_, _)
ReachesHalt(code, gas) ==
    IF Len(code) = 0 THEN FALSE
    ELSE LET opcode == Head(code)
             gasCost == getGasCost(opcode)
         IN  IF gas < gasCost THEN FALSE
             ELSE IF opcode = "STOP" \/ opcode = "RETURN" THEN TRUE
             ELSE IF opcode \notin JumpTableOps THEN FALSE
             ELSE IF opcode = "PUSH1"
                  THEN Len(code) >= 2 /\ ReachesHalt(Tail(Tail(code)), gas - gasCost)
             ELSE ReachesHalt(Tail(code), gas - gasCost)

\* C22: a run that reaches STOP or RETURN with enough gas halts there
\* without an error.
C22_StopAndReturnHalt ==
    (/\ lastCall.op = "Run"
     /\ lastCall.arg.evm # NilEvm
     /\ ReachesHalt(lastCall.arg.code, lastCall.arg.gas))
        => lastCall.ret = "ok"

\* C28: ExecuteTransaction ends with a receipt or an error and never with a
\* panic, for every transaction (To == nil and targets with code included).
C28_ExecuteTransactionNeverPanics ==
    lastCall.op = "ExecuteTransaction" => lastCall.ret # "panic"


\* C23: a read returns the value most recently written, whether or not
\* Commit ran in between: every account value held before a successful
\* Commit (nonce, balance, code) is read back identically after it.
C23_ReadsSeeLastWrite ==
    [][(lastCall'.op = "Commit" /\ lastCall'.ret = "ok")
        => \A a \in DOMAIN cache : GetAccount(cache', dbAccounts', a) = cache[a]]_vars

\* C24: a Commit that follows a successful Commit with no call in between
\* leaves the store as the first one left it.
C24_CommitIdempotent ==
    [][(/\ lastCall.op = "Commit" /\ lastCall.ret = "ok"
        /\ lastCall'.op = "Commit")
        => /\ dbAccounts' = dbAccounts
           /\ lastCall'.ret = "ok"]_vars

\* A Commit found the cache empty on a store that holds balances: it is the
\* second of two Commit calls in a row (only a successful Commit leaves the
\* cache empty).
C24_Witness ==
    /\ lastCall.op = "Commit"
    /\ lastCall.ret = "ok"
    /\ lastCall.arg.puts = 0
    /\ cache = EmptyMap
    /\ DOMAIN dbAccounts = Addr
    /\ dbAccounts["a1"] = 3
    /\ dbAccounts["a2"] = 1

\* C25: once an account's code is non-empty, no call changes it.
C25_CodeImmutable ==
    [][\A a \in Addr :
        GetCode(a) # <<>> => GetAccount(cache', dbAccounts', a).Code = GetCode(a)]_vars

C29_FreshChain ==
    [][lastCall.op = "NewBlockchain"
        => /\ currentBlock = createGenesisBlock
           /\ currentBlock.Header.Number = 0
           /\ \A a \in Addr : GetBalance(a) = 0 /\ GetNonce(a) = 0
           /\ lastCall'.op = "GetBalance" => lastCall'.arg.balance = 0]_vars

\* GetBalance was the first call on the fresh chain: nothing is stored and
\* the only cached account is the one the read built.
C29_Witness ==
    /\ lastCall.op = "GetBalance"
    /\ lastCall.arg.balance = 0
    /\ dbAccounts = EmptyMap
    /\ DOMAIN cache = {lastCall.arg.addr}
    /\ cache[lastCall.arg.addr] = [Nonce |-> 0, Balance |-> 0, Code |-> <<>>]
    /\ currentBlock = createGenesisBlock


\* C30: on a fresh chain with no registered validators, ValidateBlock
\* returns no error for a block whose Hash is the hash of its header and
\* whose transaction list is empty.
C30_FreshChainValidatesEmptyBlocks ==
    (/\ lastCall.op = "ValidateBlock"
     /\ validators = EmptyMap
     /\ currentBlock = createGenesisBlock
     /\ lastCall.arg.block.Hash = ComputeHash(lastCall.arg.block.Header)
     /\ lastCall.arg.block.Transactions = <<>>)
        => lastCall.ret = "ok"


\* Both loops and Stop have returned.
AllReturned ==
    /\ pc.blockProcessor = "returned"
    /\ pc.txProcessor = "returned"
    /\ pc.Stop = "returned"

\* C27: once Stop has closed the stop signal, blockProcessor and txProcessor
\* eventually return and Stop returns, whatever the loops are doing.
C27_StopTerminatesLoops == (stopCh = "closed") ~> AllReturned


\* The sum of Stake + TotalDelegated over the validators in S.
RECURSIVE RegisteredStake(_)
RegisteredStake(S) ==
    IF S = {} THEN 0
    ELSE LET a == CHOOSE x \in S : TRUE
         IN  validators[a].Stake + validators[a].TotalDelegated + RegisteredStake(S \ {a})

\* C37: after any sequence of RegisterValidator, Delegate, Unbond,
\* CompleteUnbonding, Slash and UpdateBlock calls, totalStake is the sum of
\* Stake + TotalDelegated over all registered validators, Active and
\* Slashed.
C37_TotalStakeIsRegisteredSum ==
    totalStake = RegisteredStake(DOMAIN validators)

\* C37 happens: a validator that holds delegated stake, part of which was
\* unbonded, has been slashed, and another validator is registered.
C37_Witness ==
    /\ lastCall.op = "Slash"
    /\ lastCall.ret = "ok"
    /\ Cardinality(DOMAIN validators) = 2
    /\ validators[lastCall.arg.address].TotalDelegated > 0
    /\ \E d \in DOMAIN delegators : \E i \in 1..Len(delegators[d]) :
          /\ delegators[d][i].Validator = lastCall.arg.address
          /\ delegators[d][i].Status # "Active"
    /\ totalStake # 0


\* Every stake figure of the engine is non-negative.
StakesNonNegative(vals, dels, total) ==
    /\ total >= 0
    /\ \A a \in DOMAIN vals : vals[a].Stake >= 0 /\ vals[a].TotalDelegated >= 0
    /\ \A d \in DOMAIN dels : \A i \in 1..Len(dels[d]) : dels[d][i].Amount >= 0

\* C38: with the configuration of NewPoS and non-negative stake and
\* delegation amounts, every validator's Stake and TotalDelegated and
\* totalStake stay non-negative: a call made with a non-negative amount in
\* a state where they are non-negative leaves them non-negative, and Slash
\* takes no more than the validator's stake.
C38_StakesStayNonNegative ==
    [][(/\ StakesNonNegative(validators, delegators, totalStake)
        /\ lastCall'.op \in {"RegisterValidator", "Delegate", "Unbond",
                             "CompleteUnbonding", "Slash", "UpdateBlock"}
        /\ "stake" \in DOMAIN lastCall'.arg => lastCall'.arg.stake >= 0
        /\ "amount" \in DOMAIN lastCall'.arg => lastCall'.arg.amount >= 0)
        => /\ StakesNonNegative(validators', delegators', totalStake')
           /\ (lastCall'.op = "Slash" /\ lastCall'.ret = "ok")
                => validators[lastCall'.arg.address].Stake
                       - validators'[lastCall'.arg.address].Stake
                     <= validators[lastCall'.arg.address].Stake]_vars


\* The rewards credited to the delegations of slice `after` from position i
\* on, `before` being the slice before the call.
RECURSIVE SliceCredit(_, _, _)
SliceCredit(before, after, i) ==
    IF i > Len(before) THEN 0
    ELSE after[i].Rewards - before[i].Rewards + SliceCredit(before, after, i + 1)

\* The rewards credited to the delegations of the delegators in D by the step.
RECURSIVE DelegationCredit(_)
DelegationCredit(D) ==
    IF D = {} THEN 0
    ELSE LET d == CHOOSE x \in D : TRUE
         IN  SliceCredit(delegators[d], delegators'[d], 1) + DelegationCredit(D \ {d})

\* C40: for each UpdateBlock every amount credited is non-negative, the
\* amount credited to the producing validator plus the amounts credited to
\* its Active delegations is at most the block reward, and delegations
\* that are Unbonding or Completed or belong to another validator are
\* credited nothing.  Stakes and delegated amounts are non-negative before
\* the call.
C40_RewardsWithinBlockReward ==
    [][(/\ lastCall'.op = "UpdateBlock"
        /\ lastCall'.ret = "ok"
        /\ lastCall'.arg.address \in DOMAIN validators
        /\ StakesNonNegative(validators, delegators, totalStake))
        => LET a == lastCall'.arg.address
               validatorCredit == validators'[a].Rewards - validators[a].Rewards
           IN  /\ validatorCredit >= 0
               /\ DOMAIN delegators' = DOMAIN delegators
               /\ \A d \in DOMAIN delegators : \A i \in 1..Len(delegators[d]) :
                     LET credit == delegators'[d][i].Rewards - delegators[d][i].Rewards
                     IN  /\ credit >= 0
                         /\ (delegators[d][i].Validator # a
                               \/ delegators[d][i].Status # "Active") => credit = 0
               /\ validatorCredit + DelegationCredit(DOMAIN delegators) <= RewardRate
               /\ \A b \in DOMAIN validators \ {a} :
                     validators'[b].Rewards = validators[b].Rewards]_vars


\* C32: in every reachable state the store holds currentBlock under its
\* hash and the store's "currentBlock" key holds that hash; ProcessBlock
\* assigns currentBlock only when both writes succeeded, and a ProcessBlock
\* that returns an error (a failed Commit, a failed write) leaves
\* currentBlock as it was.
C32_TipIsPersisted ==
    /\ [](/\ currentBlock.Hash \in DOMAIN dbBlocks
          /\ dbBlocks[currentBlock.Hash] = currentBlock
          /\ dbCurrent = currentBlock.Hash)
    /\ [][/\ currentBlock' # currentBlock
             => /\ lastCall'.op = "ProcessBlock" /\ lastCall'.ret = "ok"
                /\ currentBlock'.Hash \in DOMAIN dbBlocks'
                /\ dbBlocks'[currentBlock'.Hash] = currentBlock'
                /\ dbCurrent' = currentBlock'.Hash
          /\ (lastCall'.op = "ProcessBlock" /\ lastCall'.ret # "ok")
             => currentBlock' = currentBlock /\ dbCurrent' = dbCurrent]_vars

\* C32 happens: the write of the "currentBlock" key failed for a block that
\* was already put in the store, and the tip is still the genesis block.
C32_Witness ==
    /\ lastCall.op = "ProcessBlock"
    /\ lastCall.ret = "failed to write block"
    /\ \E h \in DOMAIN dbBlocks : h # currentBlock.Hash
    /\ currentBlock = createGenesisBlock
    /\ dbCurrent = createGenesisBlock.Hash


\* The errors of the consensus ValidateBlock.
ConsensusErrors ==
    {"invalid validator", "block signature missing", "validator not found",
     "invalid block signature"}

\* C36: with two or more Active validators, the block tryCreateBlock built
\* is accepted by the consensus ValidateBlock check of ProcessBlock.
C36_CreatedBlockPassesConsensus ==
    [][(/\ created # NoBlock
        /\ created' = NoBlock
        /\ lastCall'.op = "ProcessBlock"
        /\ Cardinality(getActiveValidators(validators)) >= 2)
        => lastCall'.ret \notin ConsensusErrors]_vars


C35_ValidatorKeyUnderLock ==
    /\ [][lastCall'.op = "SetValidator" => pc.blockProcessor # "SignBlock"]_vars
    /\ []((created # NoBlock /\ created.Header.Signature # NoSig)
            => created.Header.Signature.key = PublicKeyOf(created.Header.Validator))


\* The goroutine is about to read or write bc.blockCache holding no lock.
AccessesBlockCache(t) == th[t].at \in {"GetBlockByHash", "blockCache store"}
\* The goroutine is about to read bc.currentBlock holding no lock.
AccessesCurrentBlock(t) == th[t].at = "GetBlockByNumber"

\* C31: GetBlockByHash, GetBlockByNumber and GetCurrentBlock run safely
\* beside ProcessBlock: ProcessBlock never writes the block cache or
\* currentBlock at a moment when a getter is about to access the same field
\* without holding the orchestrator's lock.
C31_GettersDoNotRaceProcessBlock ==
    [][lastCall'.op = "ProcessBlock"
        => \A t \in Threads :
              /\ blockCache' # blockCache => ~AccessesBlockCache(t)
              /\ currentBlock' # currentBlock => ~AccessesCurrentBlock(t)]_vars


\* The goroutines that GetAccount has handed an account for the address.
AccountHolders(addr) ==
    {t \in Threads : th[t].at \in {"s.mu.RUnlock", "account"} /\ th[t].addr = addr}

\* C33: the callers of GetAccount for one address are handed one and the
\* same account object, which is the one s.cache keeps for the address, so a
\* write through it is a write to the cached account; and s.cache is only
\* written while the exclusive lock of the state is held.
C33_OneAccountObjectPerAddress ==
    /\ [](\A addr \in StateAddr : \A t \in AccountHolders(addr) :
             /\ addr \in DOMAIN cacheObj
             /\ cacheObj[addr] = th[t].account
             /\ \A u \in AccountHolders(addr) : th[u].account = th[t].account)
    /\ [][cacheObj' # cacheObj => stateMu.writer # "none"]_vars

\* C34: every call of an accessor of State and of the consensus engine
\* returns, whether the goroutine runs alone or another goroutine waits for
\* the exclusive lock.
C34_AccessorsTerminate ==
    \A t \in Threads : (th[t].at # "idle") ~> (th[t].at = "idle")

=============================================================================
